---- MODULE Spec2Model ----
(***************************************************************************)
(* PAstaLinkBot: the message pipeline of core/bot.py.  A text is a         *)
(* sequence of characters; a character is a one-letter string, or one of   *)
(* the tokens "TAB", "NL" (the two white-space controls the sanitizer      *)
(* keeps), "SOH" (a control character, U+0001) and "o_grave" (the accented *)
(* letter U+00F2, whose NFD form is "o" followed by a combining mark).     *)
(***************************************************************************)
EXTENDS Integers, Sequences, FiniteSets, TLC

None == <<"None">>

(***************************************************************************)
(* Characters (str.isprintable, str.isspace, str.isalnum, str.lower).      *)
(***************************************************************************)
UpperLetters == <<"A","B","C","D","E","F","G","H","I","J","K","L","M",
                  "N","O","P","Q","R","S","T","U","V","W","X","Y","Z">>

LowerLetters == <<"a","b","c","d","e","f","g","h","i","j","k","l","m",
                  "n","o","p","q","r","s","t","u","v","w","x","y","z">>

Digits == {"0","1","2","3","4","5","6","7","8","9"}

Range(s) == { s[i] : i \in DOMAIN s }

\* a local variable: Body of the value
With(value, Body(_)) == Body(value)

isspace(c) == c \in {" ", "TAB", "NL"}

isprintable(c) == c \notin {"TAB", "NL", "SOH"}

isalnum(c) == c \in Range(UpperLetters) \cup Range(LowerLetters) \cup Digits \cup {"o_grave"}

\* \w of the re module: alphanumeric or underscore
isword(c) == isalnum(c) \/ c = "_"

lower_char(c) ==
    IF c \in Range(UpperLetters)
    THEN LowerLetters[CHOOSE i \in DOMAIN UpperLetters : UpperLetters[i] = c]
    ELSE c

\* the sequence of the values of F on the elements of s
MapSeq(s, F(_)) ==
    LET RECURSIVE Mapped(_)
        Mapped(n) == IF n = 0 THEN <<>> ELSE Append(Mapped(n - 1), F(s[n]))
    IN  Mapped(Len(s))

lower(text) == MapSeq(text, lower_char)

\* the code points of the characters, in increasing order (str comparison)
CodeOrder == <<"SOH", "TAB", "NL", " ", "!", "'", ",", "-", ".", "/", "0", "1", "2", "3",
               "4", "5", "6", "7", "8", "9", "?">> \o UpperLetters \o <<"_">>
             \o LowerLetters \o <<"{", "|", "}", "o_grave">>

ord(c) == CHOOSE i \in DOMAIN CodeOrder : CodeOrder[i] = c

(***************************************************************************)
(* Strings (str.strip, str.split, " ".join).                               *)
(***************************************************************************)
\* str.strip: the text between its first and its last non-space character
strip(text) ==
    IF \A i \in DOMAIN text : isspace(text[i]) THEN <<>>
    ELSE LET first == CHOOSE i \in DOMAIN text :
                          ~isspace(text[i]) /\ \A j \in 1..(i - 1) : isspace(text[j])
             stop == CHOOSE i \in DOMAIN text :
                          ~isspace(text[i]) /\ \A j \in (i + 1)..Len(text) : isspace(text[j])
         IN  SubSeq(text, first, stop)

\* " ".join(text.split()): white-space runs become one space, the ends are trimmed
join_split(text) ==
    LET RECURSIVE Joined(_)
        Joined(n) ==
            IF n = 0 THEN <<>>
            ELSE IF ~isspace(text[n]) THEN Append(Joined(n - 1), text[n])
            ELSE IF n > 1 /\ ~isspace(text[n - 1]) THEN Append(Joined(n - 1), " ")
            ELSE Joined(n - 1)
    IN  strip(Joined(Len(text)))

\* text[:n]
prefix(text, n) == SubSeq(text, 1, IF Len(text) < n THEN Len(text) ELSE n)

\* a text of n copies of c
RECURSIVE repeat(_, _)
repeat(c, n) == IF n = 0 THEN <<>> ELSE <<c>> \o repeat(c, n - 1)

(***************************************************************************)
(* Settings (config/settings.py, config/constants.py).  Ratios and         *)
(* thresholds are kept in hundredths.                                      *)
(***************************************************************************)
MIN_MESSAGE_LENGTH == 3
MAX_SPAM_REPETITION_RATIO == 30
MIN_UNIQUE_CHARS_FOR_SPAM_CHECK == 3
max_message_length == 16
max_links_per_response == 6
fuzzy_match_threshold == 70
suggestion_threshold == 40
NATIONAL_REGION == <<"N","a","z","i","o","n","a","l","e">>

(***************************************************************************)
(* InputValidationService: messages (core/services/validator.py).          *)
(***************************************************************************)
Valid(normalized_value) ==
    [is_valid |-> TRUE, normalized_value |-> normalized_value,
     error_message |-> None, suggestions |-> <<>>]

Invalid(error_message, suggestions) ==
    [is_valid |-> FALSE, normalized_value |-> None,
     error_message |-> error_message, suggestions |-> suggestions]

KeepOnSanitize(c) == isprintable(c) \/ c \in {"NL", "TAB"}

sanitize_input(text) ==
    IF text = <<>> THEN <<>>
    ELSE strip(join_split(SelectSeq(text, KeepOnSanitize)))

\* validate_message_length without the upper limit; C7 has to tell it from
\* validate_message_length
validate_message_length_unbounded(text) ==
    IF text = <<>> THEN Invalid("Message cannot be empty", <<>>)
    ELSE IF Len(text) < MIN_MESSAGE_LENGTH THEN Invalid("Message too short", <<>>)
    ELSE Valid(text)

validate_message_length(text) ==
    IF text = <<>> THEN Invalid("Message cannot be empty", <<>>)
    ELSE IF Len(text) < MIN_MESSAGE_LENGTH THEN Invalid("Message too short", <<>>)
    ELSE IF Len(text) > max_message_length THEN Invalid("Message too long", <<>>)
    ELSE Valid(text)

IsPunctuation(c) == ~isalnum(c) /\ ~isspace(c)

detect_spam(text) ==
    IF text = <<>> THEN Valid(text)
    ELSE IF /\ Len(text) > MIN_UNIQUE_CHARS_FOR_SPAM_CHECK
            /\ Cardinality(Range(lower(text))) * 100 < MAX_SPAM_REPETITION_RATIO * Len(text)
         THEN Invalid("Message appears to be spam (too repetitive)", <<>>)
    ELSE IF /\ Len(text) > 10
            /\ Len(SelectSeq(text, IsPunctuation)) * 100 > 50 * Len(text)
         THEN Invalid("Message contains excessive punctuation", <<>>)
    ELSE Valid(text)

validate_message(message_text) ==
    IF message_text = <<>> THEN Invalid("Please send me a message", <<>>)
    ELSE With(sanitize_input(message_text),
              LAMBDA sanitized :
                  IF ~validate_message_length(sanitized).is_valid
                      THEN validate_message_length(sanitized)
                  ELSE IF ~detect_spam(sanitized).is_valid
                      THEN detect_spam(sanitized)
                  ELSE Valid(sanitized))

(***************************************************************************)
(* The help / about shortcuts (config/constants.py, re.search).  A pattern *)
(* \bw1\s+w2...\b is the sequence of its words.                            *)
(***************************************************************************)
HELP_PATTERNS ==
    << << <<"h","e","l","p">> >>,
       << <<"a","i","u","t","o">> >>,
       << <<"c","o","s","a">>, <<"s","a","i">>, <<"f","a","r","e">> >>,
       << <<"w","h","a","t">>, <<"c","a","n">>, <<"y","o","u">>, <<"d","o">> >>,
       << <<"c","o","m","a","n","d","i">> >>,
       << <<"f","u","n","z","i","o","n","i">> >> >>

ABOUT_PATTERNS ==
    << << <<"c","h","i">>, <<"s","e","i">> >>,
       << <<"w","h","o">>, <<"a","r","e">>, <<"y","o","u">> >>,
       << <<"c","o","s","a">>, <<"s","e","i">> >>,
       << <<"w","h","a","t">>, <<"a","r","e">>, <<"y","o","u">> >> >>

\* \b between position pos-1 and pos, where one side is known to be a word character
AtWordEdge(text, pos) == pos < 1 \/ pos > Len(text) \/ ~isword(text[pos])

\* the words match from position pos on, separated by \s+ and ended by \b
RECURSIVE MatchWords(_, _, _)
MatchWords(text, pos, words) ==
    LET w == Head(words)
        next == pos + Len(w)
    IN  /\ next - 1 <= Len(text)
        /\ lower(SubSeq(text, pos, next - 1)) = w
        /\ IF Len(words) = 1
           THEN AtWordEdge(text, next)
           ELSE \E k \in 1..(Len(text) - next + 1) :
                    /\ \A i \in next..(next + k - 1) : isspace(text[i])
                    /\ MatchWords(text, next + k, Tail(words))

pattern_search(pattern, text) ==
    \E pos \in 1..Len(text) : AtWordEdge(text, pos - 1) /\ MatchWords(text, pos, pattern)

_matches_patterns(text, patterns) ==
    \E p \in DOMAIN patterns : pattern_search(patterns[p], lower(text))

(***************************************************************************)
(* difflib: SequenceMatcher.ratio and get_close_matches.  The autojunk     *)
(* heuristic of SequenceMatcher only acts on a second sequence of 200 or   *)
(* more characters, where it can only remove matches of characters that    *)
(* occur in it more than 1 + len/100 times.                                *)
(***************************************************************************)
\* the length of the common run of a from i and b from j, inside a[..ahi], b[..bhi]
RECURSIVE RunLength(_, _, _, _, _, _)
RunLength(a, b, i, j, ahi, bhi) ==
    IF i > ahi \/ j > bhi \/ a[i] # b[j] THEN 0
    ELSE 1 + RunLength(a, b, i + 1, j + 1, ahi, bhi)

\* SequenceMatcher.find_longest_match: the longest block, the earliest in a,
\* and of those the earliest in b
find_longest_match(a, b, alo, ahi, blo, bhi) ==
    With({ <<RunLength(a, b, p[1], p[2], ahi, bhi), p[1], p[2]>> :
             p \in (alo..ahi) \X (blo..bhi) },
         LAMBDA runs :
    With({ r \in runs : \A q \in runs : q[1] <= r[1] },
         LAMBDA longest :
    With({ r \in longest : \A q \in longest : r[2] <= q[2] },
         LAMBDA earliest :
    With(CHOOSE r \in earliest : \A q \in earliest : r[3] <= q[3],
         LAMBDA m : [i |-> m[2], j |-> m[3], k |-> m[1]]))))

\* the sum of the sizes of SequenceMatcher.get_matching_blocks
RECURSIVE MatchingSize(_, _, _, _, _, _)
MatchingSize(a, b, alo, ahi, blo, bhi) ==
    IF alo > ahi \/ blo > bhi THEN 0
    ELSE With(find_longest_match(a, b, alo, ahi, blo, bhi),
              LAMBDA m :
                  IF m.k = 0 THEN 0
                  ELSE m.k + MatchingSize(a, b, alo, m.i - 1, blo, m.j - 1)
                           + MatchingSize(a, b, m.i + m.k, ahi, m.j + m.k, bhi))

\* ratio() = 2.0 * matches / (len(a) + len(b)), as the pair <<2 * matches, length>>
ratio(a, b) ==
    IF Len(a) + Len(b) = 0 THEN <<1, 1>>
    ELSE <<2 * MatchingSize(a, b, 1, Len(a), 1, Len(b)), Len(a) + Len(b)>>

\* ratio >= cutoff, the cutoff in hundredths
AtLeast(r, cutoff) == r[1] * 100 >= cutoff * r[2]

\* str < str
RECURSIVE StrLess(_, _)
StrLess(x, y) ==
    IF y = <<>> THEN FALSE
    ELSE IF x = <<>> THEN TRUE
    ELSE IF Head(x) # Head(y) THEN ord(Head(x)) < ord(Head(y))
    ELSE StrLess(Tail(x), Tail(y))

\* (score, x) > (score, y) of heapq.nlargest, on pairs <<x, ratio(x, word)>>
ScoredAbove(sx, sy) ==
    \/ sx[2][1] * sy[2][2] > sy[2][1] * sx[2][2]
    \/ sx[2][1] * sy[2][2] = sy[2][1] * sx[2][2] /\ StrLess(sy[1], sx[1])

RECURSIVE Largest(_, _)
Largest(n, scored) ==
    IF n = 0 \/ scored = {} THEN <<>>
    ELSE With(CHOOSE s \in scored : \A t \in scored \ {s} : ScoredAbove(s, t),
              LAMBDA top : <<top[1]>> \o Largest(n - 1, scored \ {top}))

get_close_matches(word, possibilities, n, cutoff) ==
    Largest(n, { s \in { <<x, ratio(x, word)>> : x \in possibilities } :
                   AtLeast(s[2], cutoff) })

(***************************************************************************)
(* InputValidationService: regions (core/services/validator.py).           *)
(***************************************************************************)
MAX_SUGGESTIONS == 3

\* unicodedata.normalize("NFD") without the combining marks
strip_accent(c) == IF c = "o_grave" THEN "o" ELSE c

_normalize_text(text) ==
    IF text = <<>> THEN <<>>
    ELSE join_split(MapSeq(MapSeq(strip(lower(text)), strip_accent),
                           LAMBDA c : IF c \in {"-", "_"} THEN " " ELSE c))

region_mappings ==
    <<
       << <<"l","o","m","b","a","r","d","y">>,
          <<"L","o","m","b","a","r","d","i","a">> >>,
       << <<"p","i","e","d","m","o","n","t">>,
          <<"P","i","e","m","o","n","t","e">> >>,
       << <<"t","u","s","c","a","n","y">>,
          <<"T","o","s","c","a","n","a">> >>,
       << <<"s","i","c","i","l","y">>,
          <<"S","i","c","i","l","i","a">> >>,
       << <<"s","a","r","d","i","n","i","a">>,
          <<"S","a","r","d","e","g","n","a">> >>,
       << <<"a","p","u","l","i","a">>,
          <<"P","u","g","l","i","a">> >>,
       << <<"r","o","m","a">>,
          <<"L","a","z","i","o">> >>,
       << <<"r","o","m","e">>,
          <<"L","a","z","i","o">> >>,
       << <<"m","i","l","a","n","o">>,
          <<"L","o","m","b","a","r","d","i","a">> >>,
       << <<"m","i","l","a","n">>,
          <<"L","o","m","b","a","r","d","i","a">> >>,
       << <<"n","a","p","o","l","i">>,
          <<"C","a","m","p","a","n","i","a">> >>,
       << <<"n","a","p","l","e","s">>,
          <<"C","a","m","p","a","n","i","a">> >>,
       << <<"t","o","r","i","n","o">>,
          <<"P","i","e","m","o","n","t","e">> >>,
       << <<"t","u","r","i","n">>,
          <<"P","i","e","m","o","n","t","e">> >>,
       << <<"f","i","r","e","n","z","e">>,
          <<"T","o","s","c","a","n","a">> >>,
       << <<"f","l","o","r","e","n","c","e">>,
          <<"T","o","s","c","a","n","a">> >>,
       << <<"b","o","l","o","g","n","a">>,
          <<"E","m","i","l","i","a","-","R","o","m","a","g","n","a">> >>,
       << <<"v","e","n","e","z","i","a">>,
          <<"V","e","n","e","t","o">> >>,
       << <<"v","e","n","i","c","e">>,
          <<"V","e","n","e","t","o">> >>,
       << <<"g","e","n","o","v","a">>,
          <<"L","i","g","u","r","i","a">> >>,
       << <<"g","e","n","o","a">>,
          <<"L","i","g","u","r","i","a">> >>,
       << <<"b","a","r","i">>,
          <<"P","u","g","l","i","a">> >>,
       << <<"p","a","l","e","r","m","o">>,
          <<"S","i","c","i","l","i","a">> >>,
       << <<"c","a","t","a","n","i","a">>,
          <<"S","i","c","i","l","i","a">> >>,
       << <<"e","m","i","l","i","a"," ","r","o","m","a","g","n","a">>,
          <<"E","m","i","l","i","a","-","R","o","m","a","g","n","a">> >>,
       << <<"f","r","i","u","l","i"," ","v","e","n","e","z","i","a"," ","g","i","u","l","i","a">>,
          <<"F","r","i","u","l","i","-","V","e","n","e","z","i","a"," ","G","i","u","l","i","a">> >>,
       << <<"t","r","e","n","t","i","n","o"," ","a","l","t","o"," ","a","d","i","g","e">>,
          <<"T","r","e","n","t","i","n","o","-","A","l","t","o"," ","A","d","i","g","e">> >>,
       << <<"v","a","l","l","e"," ","d","a","o","s","t","a">>,
          <<"V","a","l","l","e"," ","d","'","A","o","s","t","a">> >> >>

\* the function on S with the values of F
Tabulate(S, F(_)) ==
    LET RECURSIVE Rows(_)
        Rows(rest) ==
            IF rest = {} THEN <<>>
            ELSE LET x == CHOOSE y \in rest : TRUE
                 IN  (x :> F(x)) @@ Rows(rest \ {x})
    IN  Rows(S)

\* {self._normalize_text(r): r for r in regions}: the last region of a key stays
normalized_regions_of(regions) ==
    Tabulate({ _normalize_text(regions[i]) : i \in DOMAIN regions },
             LAMBDA k : regions[CHOOSE i \in DOMAIN regions :
                            /\ _normalize_text(regions[i]) = k
                            /\ \A j \in (i + 1)..Len(regions) :
                                   _normalize_text(regions[j]) # k])

\* _build_region_aliases: the aliases of the regions present, then the
\* normalized names of the regions, which are visited in the order of a set:
\* of two regions with one normalized name either may stay
region_aliases_of(regions) ==
    LET present == { m \in DOMAIN region_mappings : region_mappings[m][2] \in regions }
        mapped == { _normalize_text(region_mappings[m][1]) : m \in present }
        named == { _normalize_text(r) : r \in regions }
        FromMapping(k) ==
            region_mappings[CHOOSE m \in present :
                /\ _normalize_text(region_mappings[m][1]) = k
                /\ \A m2 \in present :
                       m2 > m => _normalize_text(region_mappings[m2][1]) # k][2]
        aliases == Tabulate(mapped \ named, FromMapping)
        RECURSIVE Picks(_)
        Picks(keys) ==
            IF keys = {} THEN {<<>>}
            ELSE LET k == CHOOSE x \in keys : TRUE
                 IN  { (k :> r) @@ pick :
                         r \in { x \in regions : _normalize_text(x) = k },
                         pick \in Picks(keys \ {k}) }
    IN  { aliases @@ pick : pick \in Picks(named) }

\* InputValidationService.__init__, for each order of the set
ConfiguredValidationServices(regions, fuzzy, suggestion) ==
    { [regions |-> Range(regions),
       fuzzy_match_threshold |-> fuzzy,
       suggestion_threshold |-> suggestion,
       normalized_regions |-> normalized_regions_of(regions),
       region_aliases |-> aliases] : aliases \in region_aliases_of(Range(regions)) }

\* the service that _initialize_services builds with the thresholds of the settings
InputValidationServices(regions) ==
    ConfiguredValidationServices(regions, fuzzy_match_threshold, suggestion_threshold)

\* update_regions leaving region_aliases as they were; C29 has to tell it
\* from update_regions
update_regions_keeping_aliases(v, new_regions) ==
    { [v EXCEPT !.regions = Range(new_regions),
                !.normalized_regions = normalized_regions_of(new_regions)] }

\* update_regions: regions, normalized_regions and region_aliases are
\* rebuilt, the thresholds stay
update_regions(v, new_regions) ==
    ConfiguredValidationServices(new_regions, v.fuzzy_match_threshold,
                                 v.suggestion_threshold)

RECURSIVE Dedupe(_, _)
Dedupe(names, seen) ==
    IF names = <<>> THEN seen
    ELSE Dedupe(Tail(names),
                IF Head(names) \in Range(seen) THEN seen ELSE Append(seen, Head(names)))

\* _get_region_suggestions returning every suggestion it collected; C3 has to
\* tell it from _get_region_suggestions
_get_region_suggestions_uncut(v, normalized_input) ==
    IF normalized_input = <<>> THEN <<>>
    ELSE Dedupe(
             MapSeq(get_close_matches(normalized_input, DOMAIN v.normalized_regions,
                                      MAX_SUGGESTIONS, v.suggestion_threshold),
                    LAMBDA m : v.normalized_regions[m])
             \o MapSeq(get_close_matches(normalized_input, DOMAIN v.region_aliases,
                                         MAX_SUGGESTIONS, v.suggestion_threshold),
                       LAMBDA m : v.region_aliases[m]),
             <<>>)

_get_region_suggestions(v, normalized_input) ==
    IF normalized_input = <<>> THEN <<>>
    ELSE prefix(Dedupe(
             MapSeq(get_close_matches(normalized_input, DOMAIN v.normalized_regions,
                                      MAX_SUGGESTIONS, v.suggestion_threshold),
                    LAMBDA m : v.normalized_regions[m])
             \o MapSeq(get_close_matches(normalized_input, DOMAIN v.region_aliases,
                                         MAX_SUGGESTIONS, v.suggestion_threshold),
                       LAMBDA m : v.region_aliases[m]),
             <<>>), MAX_SUGGESTIONS)

validate_region(v, region_text) ==
    IF region_text = <<>> THEN Invalid("Region cannot be empty", <<>>)
    ELSE
    With(strip(region_text),
         LAMBDA original_text :
    With(_normalize_text(sanitize_input(original_text)),
         LAMBDA normalized_input :
             IF normalized_input \in DOMAIN v.normalized_regions
                 THEN Valid(v.normalized_regions[normalized_input])
             ELSE IF normalized_input \in DOMAIN v.region_aliases
                 THEN Valid(v.region_aliases[normalized_input])
             ELSE IF \E r \in v.regions : lower(r) = lower(original_text)
                 THEN Valid(CHOOSE r \in v.regions : lower(r) = lower(original_text))
             ELSE
             With(_get_region_suggestions(v, normalized_input),
                  LAMBDA suggestions :
             With(get_close_matches(normalized_input, DOMAIN v.normalized_regions,
                                    1, v.fuzzy_match_threshold),
                  LAMBDA close_matches :
                      IF suggestions # <<>> /\ close_matches # <<>>
                      THEN Valid(v.normalized_regions[close_matches[1]])
                      ELSE Invalid("Region not recognized", suggestions)))))

(***************************************************************************)
(* CatalogIndex and CatalogService (core/services/catalog.py).  An entry   *)
(* is a record [intent, region, label, url] that passed                    *)
(* CatalogEntry.__post_init__.  get_entries is memoized per index object   *)
(* (lru_cache keyed by self, intent, region); an index is never changed    *)
(* after it is built, so a memoized result equals the computed one.        *)
(***************************************************************************)
_make_combined_key(intent, region) == intent \o <<"|">> \o region

\* the entries of the list that satisfy Test, in the order of the list
Bucket(entries, Test(_)) == SelectSeq(entries, Test)

\* _build_indexes leaving the national entries out of the region index; C21
\* has to tell it from _build_indexes
_build_indexes_without_national(entries) ==
    LET intents == { entries[i].intent : i \in DOMAIN entries } \ {<<>>}
        regions == { entries[i].region : i \in DOMAIN entries } \ {<<>>}
        keys == { _make_combined_key(entries[i].intent, entries[i].region) :
                    i \in { j \in DOMAIN entries :
                              entries[j].intent # <<>> /\ entries[j].region # <<>> } }
    IN  [entries |-> entries,
         intent_index |->
             Tabulate(intents, LAMBDA x : Bucket(entries, LAMBDA e : e.intent = x)),
         region_index |->
             Tabulate(regions \ {NATIONAL_REGION},
                      LAMBDA r : Bucket(entries, LAMBDA e : e.region = r)),
         intent_region_index |->
             Tabulate(keys, LAMBDA k :
                 Bucket(entries, LAMBDA e : /\ e.intent # <<>> /\ e.region # <<>>
                                            /\ _make_combined_key(e.intent, e.region) = k)),
         regions |-> regions \ {NATIONAL_REGION},
         intents |-> intents]

_build_indexes(entries) ==
    LET intents == { entries[i].intent : i \in DOMAIN entries } \ {<<>>}
        regions == { entries[i].region : i \in DOMAIN entries } \ {<<>>}
        keys == { _make_combined_key(entries[i].intent, entries[i].region) :
                    i \in { j \in DOMAIN entries :
                              entries[j].intent # <<>> /\ entries[j].region # <<>> } }
    IN  [entries |-> entries,
         intent_index |->
             Tabulate(intents, LAMBDA x : Bucket(entries, LAMBDA e : e.intent = x)),
         region_index |->
             Tabulate(regions, LAMBDA r : Bucket(entries, LAMBDA e : e.region = r)),
         intent_region_index |->
             Tabulate(keys, LAMBDA k :
                 Bucket(entries, LAMBDA e : /\ e.intent # <<>> /\ e.region # <<>>
                                            /\ _make_combined_key(e.intent, e.region) = k)),
         regions |-> regions \ {NATIONAL_REGION},
         intents |-> intents]

\* CatalogIndex.get_entries; region is None or a text
get_entries(index, intent_arg, region) ==
    LET intent == lower(intent_arg)
        has_region == region # None /\ region # <<>>
        key == _make_combined_key(intent, IF has_region THEN region ELSE <<>>)
        national_key == _make_combined_key(intent, NATIONAL_REGION)
    IN  IF intent_arg = <<>> THEN <<>>
        ELSE IF has_region /\ key \in DOMAIN index.intent_region_index
            THEN index.intent_region_index[key]
        ELSE IF national_key \in DOMAIN index.intent_region_index
            THEN index.intent_region_index[national_key]
        ELSE IF intent \in DOMAIN index.intent_index
            THEN Bucket(index.intent_index[intent],
                        LAMBDA e : \/ has_region /\ e.region = region
                                   \/ ~has_region /\ e.region = NATIONAL_REGION)
        ELSE <<>>

\* sorted(set of str)
RECURSIVE sorted(_)
sorted(names) ==
    IF names = {} THEN <<>>
    ELSE LET least == CHOOSE x \in names : \A y \in names \ {x} : StrLess(x, y)
         IN  <<least>> \o sorted(names \ {least})

\* CatalogIndex.get_regions / CatalogService.get_regions
get_regions(service) == sorted(service.index.regions)

\* CatalogService.__init__ once _load_catalog has kept the valid entries of
\* the data file.  The usage counters of _update_stats are left out: they
\* are only ever read by get_statistics.
CatalogService(entries, limit) ==
    [entries |-> entries,
     index |-> _build_indexes(entries),
     max_links_per_response |-> limit]

\* get_links returning every entry it resolved, without the limit; C10 has
\* to tell it from get_links
get_links_unlimited(service, intent, region) ==
    IF get_entries(service.index, intent, region) = <<>> /\ region # None /\ region # <<>>
    THEN get_entries(service.index, intent, None)
    ELSE get_entries(service.index, intent, region)

\* CatalogService.get_links
get_links(service, intent, region) ==
    With(get_entries(service.index, intent, region),
         LAMBDA entries_list :
             prefix(IF entries_list = <<>> /\ region # None /\ region # <<>>
                    THEN get_entries(service.index, intent, None)
                    ELSE entries_list,
                    service.max_links_per_response))


(***************************************************************************)
(* IntentType (config/constants.py): the intent names the handlers test.   *)
(***************************************************************************)
GREETING == <<"g","r","e","e","t","i","n","g">>
SMALLTALK == <<"s","m","a","l","l","t","a","l","k">>
HELP == <<"h","e","l","p">>
ABOUT == <<"a","b","o","u","t">>
OFF_TOPIC == <<"o","f","f","_","t","o","p","i","c">>
FASCICOLO_SANITARIO == <<"f","a","s","c","i","c","o","l","o","_","s","a","n","i","t","a","r","i","o">>
BOLLO_AUTO == <<"b","o","l","l","o","_","a","u","t","o">>
CUP == <<"c","u","p">>
PATENTE == <<"p","a","t","e","n","t","e">>
UNKNOWN == <<"u","n","k","n","o","w","n">>

\* requires_region answering yes for every intent; C1 has to tell it from
\* requires_region
requires_region_of_any_intent(intent) == TRUE

requires_region(intent) == intent \in {FASCICOLO_SANITARIO, BOLLO_AUTO, CUP}

is_conversational(intent) == intent \in {GREETING, SMALLTALK, HELP, ABOUT, OFF_TOPIC}

(***************************************************************************)
(* Catalog contents.  CatalogEntry keeps intent, region, label and url;    *)
(* every entry below passes CatalogEntry.__post_init__ (non-empty fields,  *)
(* http(s) url, lower-case intent).                                        *)
(***************************************************************************)
Lazio == <<"L","a","z","i","o">>
Lombardia == <<"L","o","m","b","a","r","d","i","a">>
Toscana == <<"T","o","s","c","a","n","a">>
Veneto == <<"V","e","n","e","t","o">>
EstNazionale == <<"e","s","t","|","N","a","z","i","o","n","a","l","e">>
CupEst == <<"c","u","p","|","e","s","t">>

CatalogEntry(intent, region, label) ==
    [intent |-> intent, region |-> region, label |-> <<label>>,
     url |-> <<"h","t","t","p","s",":","/","/">> \o <<label>>]

\* the catalog of src/tests/conftest.py, with more regions and a national
\* health-record entry
SampleEntries ==
    << CatalogEntry(FASCICOLO_SANITARIO, Lombardia, "1"),
       CatalogEntry(BOLLO_AUTO, NATIONAL_REGION, "2"),
       CatalogEntry(PATENTE, NATIONAL_REGION, "3"),
       CatalogEntry(CUP, Lazio, "4"),
       CatalogEntry(CUP, Toscana, "5"),
       CatalogEntry(FASCICOLO_SANITARIO, Veneto, "6"),
       CatalogEntry(FASCICOLO_SANITARIO, NATIONAL_REGION, "7") >>

\* more national entries of one intent than any limit, between regional ones
ManyEntries ==
    << CatalogEntry(BOLLO_AUTO, NATIONAL_REGION, "1"),
       CatalogEntry(BOLLO_AUTO, Lazio, "2"),
       CatalogEntry(BOLLO_AUTO, NATIONAL_REGION, "3"),
       CatalogEntry(BOLLO_AUTO, NATIONAL_REGION, "4"),
       CatalogEntry(CUP, Lazio, "5"),
       CatalogEntry(BOLLO_AUTO, NATIONAL_REGION, "6"),
       CatalogEntry(BOLLO_AUTO, Lazio, "7"),
       CatalogEntry(BOLLO_AUTO, NATIONAL_REGION, "8"),
       CatalogEntry(BOLLO_AUTO, NATIONAL_REGION, "9"),
       CatalogEntry(BOLLO_AUTO, NATIONAL_REGION, "A"),
       CatalogEntry(BOLLO_AUTO, NATIONAL_REGION, "B") >>

\* an intent served only regionally
RegionalEntries ==
    << CatalogEntry(CUP, Lazio, "1"),
       CatalogEntry(CUP, Toscana, "2"),
       CatalogEntry(CUP, Lazio, "3") >>

\* names that contain the separator of _make_combined_key
SeparatorEntries ==
    << CatalogEntry(CupEst, NATIONAL_REGION, "1"),
       CatalogEntry(CUP, EstNazionale, "2"),
       CatalogEntry(CUP, Lazio, "3") >>

Datasets == <<SampleEntries, ManyEntries, RegionalEntries, SeparatorEntries, <<>> >>

\* max_links_per_response settings tried by the catalog specification
Limits == {1, 2, max_links_per_response}

\* arguments of a lookup: intents as a caller may spell them, regions given,
\* empty or None
QueryIntents == {BOLLO_AUTO, <<"B","o","l","l","o","_","A","u","t","o">>, CUP, FASCICOLO_SANITARIO, PATENTE, UNKNOWN, <<>>}

QueryRegions == <<None, <<>>, Lazio, Lombardia, Toscana, <<"l","a","z","i","o">>, NATIONAL_REGION, EstNazionale>>


(***************************************************************************)
(* The data file and its loading (CatalogService._load_catalog,            *)
(* CatalogEntry.from_dict).  A file is missing, is no JSON, holds a JSON   *)
(* object or holds a JSON list; a member of the list is an object (its     *)
(* fields a function from names to values) or some other value; the value  *)
(* of a field is a text, None (null) or JsonNumber (a number other than    *)
(* 0).                                                                     *)
(***************************************************************************)
JsonNumber == <<"Number">>

IsStr(value) == value # None /\ value # JsonNumber

Dict(fields) == [kind |-> "dict", fields |-> fields]

NotADict == [kind |-> "str", fields |-> <<>>]

File(kind, items) == [kind |-> kind, items |-> items]

\* the file that holds these entries, one object each
DataFile(entries) == File("list", MapSeq(entries, Dict))

\* str.startswith
startswith(text, head) == Len(text) >= Len(head) /\ SubSeq(text, 1, Len(head)) = head

Http == <<"h","t","t","p",":","/","/">>
Https == <<"h","t","t","p","s",":","/","/">>

Raised == [raised |-> TRUE, value |-> <<>>]

Returned(value) == [raised |-> FALSE, value |-> value]

RequiredFields == {"intent", "region", "label", "url"}

\* CatalogEntry.from_dict with __post_init__: the required fields are
\* tested as they are in the file, then stripped
from_dict(data) ==
    IF ~(RequiredFields \subseteq DOMAIN data) THEN Raised
    ELSE IF \E f \in RequiredFields : data[f] = None \/ data[f] = <<>> THEN Raised
    ELSE IF \E f \in RequiredFields : ~IsStr(data[f]) THEN Raised
    ELSE IF ~(startswith(data.url, Http) \/ startswith(data.url, Https)) THEN Raised
    ELSE IF "description" \in DOMAIN data /\ data.description = JsonNumber THEN Raised
    ELSE Returned([intent |-> strip(lower(data.intent)), region |-> strip(data.region),
                   label |-> strip(data.label), url |-> strip(data.url)])

\* _validate_and_convert_entries on a list: what is no object or makes
\* from_dict raise is skipped
_validate_and_convert_entries(raw_data) ==
    LET RECURSIVE Converted(_)
        Converted(n) ==
            IF n = 0 THEN <<>>
            ELSE IF raw_data[n].kind # "dict" \/ from_dict(raw_data[n].fields).raised
                THEN Converted(n - 1)
            ELSE Append(Converted(n - 1), from_dict(raw_data[n].fields).value)
    IN  Converted(Len(raw_data))

\* _load_catalog reading whatever JSON value the file holds as the list of
\* records; C12 has to tell it from _load_catalog
_load_catalog_of_any_json(file) == _validate_and_convert_entries(file.items)

\* _load_catalog: the entries it leaves in self.entries
_load_catalog(file) ==
    IF file.kind # "list" THEN <<>>
    ELSE _validate_and_convert_entries(file.items)

\* CatalogService.__init__ on a data file
LoadedCatalogService(file, limit) == CatalogService(_load_catalog(file), limit)

\* CatalogService.get_intents
get_intents(service) == sorted(service.index.intents)

\* CatalogService.reload_catalog: self.entries = [] and then, the index
\* being set since __init__, self.index.clear_cache(); CatalogIndex has no
\* such method, the AttributeError is caught and False is returned before
\* _load_catalog is reached.
reload_catalog(service, file) ==
    [success |-> FALSE, service |-> [service EXCEPT !.entries = <<>>]]

RawEntry(intent, region, label, url) ==
    Dict([intent |-> intent, region |-> region, label |-> label, url |-> url])

\* records that from_dict refuses between records it takes
MixedFile ==
    File("list",
         << RawEntry(<<"C","U","P"," ">>, <<" ">> \o Lazio, <<"a">>, Https \o <<"a"," ">>),
            Dict([intent |-> CUP, region |-> Lazio, label |-> <<"b">>]),
            RawEntry(CUP, Lazio, <<"c">>, <<"f","t","p",":","/","/","c">>),
            RawEntry(CUP, Lazio, <<"d">>, <<" ">> \o Https \o <<"d">>),
            RawEntry(JsonNumber, Lazio, <<"e">>, Https \o <<"e">>),
            NotADict,
            RawEntry(CUP, None, <<"f">>, Https \o <<"f">>),
            RawEntry(CUP, Toscana, <<>>, Https \o <<"g">>),
            Dict([intent |-> CUP, region |-> Lazio, label |-> <<"h">>,
                  url |-> Https \o <<"h">>, description |-> JsonNumber]),
            RawEntry(BOLLO_AUTO, NATIONAL_REGION, <<"i">>, Http \o <<"i">>),
            RawEntry(CUP, Lazio, <<"j">>, Https \o <<"j">>) >>)

\* fields that hold white space only
BlankFile ==
    File("list",
         << RawEntry(CUP, <<" "," ">>, <<"a">>, Https \o <<"a">>),
            RawEntry(CUP, Toscana, <<"b">>, Https \o <<"b">>) >>)

BlankIntentFile ==
    File("list",
         << RawEntry(<<" ">>, Lazio, <<"TAB">>, Https \o <<"a">>),
            RawEntry(CUP, Veneto, <<"b">>, Https \o <<"b">>) >>)

\* other regions than the sample catalog has
OtherFile ==
    File("list",
         << RawEntry(CUP, Veneto, <<"a">>, Https \o <<"a">>),
            RawEntry(BOLLO_AUTO, NATIONAL_REGION, <<"b">>, Https \o <<"b">>) >>)

MissingFile == File("missing", <<>>)

InvalidJsonFile == File("invalid_json", <<>>)

\* a JSON object where the list is expected, itself a record of an entry
ObjectFile == File("object", <<RawEntry(CUP, Lazio, <<"a">>, Https \o <<"a">>)>>)

UnreadableFiles == {MissingFile, InvalidJsonFile, ObjectFile}

DataFiles ==
    {DataFile(SampleEntries), MixedFile, BlankFile, BlankIntentFile, OtherFile,
     File("list", <<>>)} \cup UnreadableFiles


(***************************************************************************)
(* ClassificationService (core/services/classifier.py).  One call of the   *)
(* remote model is described by an outcome: how many requests fail with a  *)
(* RequestException before one is answered, the status of the answer, and  *)
(* the JSON object found in its content (a function from field names).     *)
(***************************************************************************)
max_attempts == 3

DefaultClassification ==
    [intent |-> UNKNOWN, region |-> None, needs_region |-> FALSE, confidence |-> 0]

\* dict.setdefault
setdefault(data, key, value) ==
    IF key \in DOMAIN data THEN data
    ELSE [k \in DOMAIN data \cup {key} |-> IF k = key THEN value ELSE data[k]]

delay_seconds == 1
backoff_factor == 2

\* retry of utils/decorators.py with one attempt more than max_attempts; C15
\* has to tell it from retry
RECURSIVE retry_once_more(_, _, _)
retry_once_more(attempt, delay, failures) ==
    IF attempt >= failures
        THEN [requests |-> attempt + 1, waits |-> <<>>, raised |-> FALSE]
    ELSE IF attempt = max_attempts
        THEN [requests |-> attempt + 1, waits |-> <<>>, raised |-> TRUE]
    ELSE [retry_once_more(attempt + 1, delay * backoff_factor, failures)
              EXCEPT !.waits = <<delay>> \o @]

\* retry of utils/decorators.py from this attempt on (attempts count from
\* 0), when the first `failures` calls raise a RequestException: the
\* requests sent, the waits made and whether the last exception is raised
RECURSIVE retry(_, _, _)
retry(attempt, delay, failures) ==
    IF attempt >= failures
        THEN [requests |-> attempt + 1, waits |-> <<>>, raised |-> FALSE]
    ELSE IF attempt = max_attempts - 1
        THEN [requests |-> attempt + 1, waits |-> <<>>, raised |-> TRUE]
    ELSE [retry(attempt + 1, delay * backoff_factor, failures)
              EXCEPT !.waits = <<delay>> \o @]

\* _post_chat answered at once when its answer is refused afterwards; C16
\* has to tell it from requests_sent
requests_sent_retrying_refused(outcome) ==
    IF outcome.status # "ok" THEN max_attempts
    ELSE retry(0, delay_seconds, outcome.failures).requests

\* _post_chat under @retry: the number of requests sent
requests_sent(outcome) == retry(0, delay_seconds, outcome.failures).requests

\* _post_chat under @retry: the waits between the requests, in seconds
waits_made(outcome) == retry(0, delay_seconds, outcome.failures).waits

\* _classify_internal: the JSON text that lru_cache keeps, as the object it
\* encodes
_classify_internal(outcome) ==
    IF \/ retry(0, delay_seconds, outcome.failures).raised
       \/ outcome.status # "ok"
    THEN DefaultClassification
    ELSE setdefault(setdefault(setdefault(setdefault(outcome.data,
             "intent", UNKNOWN), "region", None), "confidence", 0),
             "needs_region", FALSE)

\* the arguments of _cached_classify, which are the lru_cache key; hash() is
\* taken as injective on the texts of the model
cache_key(text) == << prefix(strip(lower(text)), 100), text >>

CacheHit(cache, key) == \E i \in DOMAIN cache : cache[i].key = key

\* functools.lru_cache: entries from least to most recently used
lru_get(cache, key) ==
    LET i == CHOOSE j \in DOMAIN cache : cache[j].key = key
    IN  [value |-> cache[i].value,
         cache |-> SelectSeq(cache, LAMBDA e : e.key # key) \o <<cache[i]>>]

\* a cache that keeps no default classification; C27 has to tell it from
\* lru_put
lru_put_unless_default(cache, key, value, maxsize) ==
    IF value = DefaultClassification THEN cache
    ELSE IF Len(cache) + 1 > maxsize
        THEN Tail(cache \o <<[key |-> key, value |-> value]>>)
    ELSE cache \o <<[key |-> key, value |-> value]>>

lru_put(cache, key, value, maxsize) ==
    LET grown == cache \o <<[key |-> key, value |-> value]>>
    IN  IF Len(grown) > maxsize THEN Tail(grown) ELSE grown

\* ClassificationResult.__post_init__: raises on an empty intent or on a
\* confidence outside [0, 1] (hundredths here), lower-cases the intent
ClassificationResult(data) ==
    IF data.intent = <<>> \/ data.confidence < 0 \/ data.confidence > 100
    THEN [raised |-> TRUE, value |-> DefaultClassification]
    ELSE [raised |-> FALSE,
          value |-> [intent |-> lower(data.intent), region |-> data.region,
                     needs_region |-> data.needs_region,
                     confidence |-> data.confidence]]

\* classify_async: the classification, the cache afterwards and the number
\* of requests sent to the remote model
classify_async(cache, maxsize, text, outcome) ==
    IF text = <<>> \/ strip(text) = <<>>
    THEN [classification |-> DefaultClassification, cache |-> cache, requests |-> 0]
    ELSE
    With(cache_key(text),
         LAMBDA key :
             IF CacheHit(cache, key)
             THEN With(lru_get(cache, key),
                       LAMBDA hit :
                           [classification |-> ClassificationResult(hit.value).value,
                            cache |-> hit.cache,
                            requests |-> 0])
             ELSE With(_classify_internal(outcome),
                       LAMBDA result_data :
                           [classification |-> ClassificationResult(result_data).value,
                            cache |-> lru_put(cache, key, result_data, maxsize),
                            requests |-> requests_sent(outcome)]))

(***************************************************************************)
(* The reply of the remote model.  Its content is a sequence of tokens: a  *)
(* character, or a member "name": literal of a JSON object (the separators *)
(* between members are left out).  A response is the status of the HTTP    *)
(* exchange and the content of its envelope.                               *)
(***************************************************************************)
Char(c) == [key |-> "char", value |-> c]

Member(name, literal) == [key |-> name, value |-> literal]

\* the value json.loads gives a literal; numbers in hundredths
json_value(literal) ==
    CASE literal = "null" -> None
      [] literal = "true" -> TRUE
      [] literal = "false" -> FALSE
      [] literal = "0.9" -> 90
      [] literal = "1.0" -> 100
      [] literal = "1.5" -> 150
      [] literal = "-0.1" -> -10
      [] literal = "'cup'" -> CUP
      [] literal = "'CUP'" -> <<"C","U","P">>
      [] literal = "'bollo_auto'" -> BOLLO_AUTO
      [] literal = "'patente'" -> PATENTE
      [] literal = "'Lazio'" -> Lazio

IsChar(token, c) == token.key = "char" /\ token.value = c

\* str.find and str.rfind, positions from 1, 0 when there is none
find(content, c) ==
    IF \E i \in DOMAIN content : IsChar(content[i], c)
    THEN CHOOSE i \in DOMAIN content :
             IsChar(content[i], c) /\ \A j \in 1..(i - 1) : ~IsChar(content[j], c)
    ELSE 0

rfind(content, c) ==
    IF \E i \in DOMAIN content : IsChar(content[i], c)
    THEN CHOOSE i \in DOMAIN content :
             IsChar(content[i], c) /\ \A j \in (i + 1)..Len(content) : ~IsChar(content[j], c)
    ELSE 0

\* json.loads of a text that starts with "{": an object when only members
\* and blanks stand between the opening brace and one closing brace; of two
\* members of one name the later stays
json_loads(span) ==
    IF /\ Len(span) >= 2
       /\ IsChar(span[1], "{")
       /\ IsChar(span[Len(span)], "}")
       /\ \A i \in 2..(Len(span) - 1) : span[i].key # "char" \/ span[i].value = " "
    THEN Returned(Tabulate({ span[i].key : i \in 2..(Len(span) - 1) } \ {"char"},
                           LAMBDA name :
                               json_value(span[CHOOSE i \in 2..(Len(span) - 1) :
                                        /\ span[i].key = name
                                        /\ \A j \in (i + 1)..(Len(span) - 1) :
                                               span[j].key # name].value)))
    ELSE Raised

\* json.loads of the whole content; C17 has to tell it from parse_content
parse_whole_content(content) == json_loads(content)

\* _classify_internal: "Extract JSON from response"
parse_content(content) ==
    IF find(content, "{") = 0 \/ rfind(content, "}") = 0 THEN Raised
    ELSE json_loads(SubSeq(content, find(content, "{"), rfind(content, "}")))

Response(status, content) == [status |-> status, content |-> content]

\* the outcome of a call in which `failures` requests fail before this
\* response arrives
Replied(failures, response) ==
    [failures |-> failures,
     status |-> IF response.status # "ok" THEN response.status
                ELSE IF parse_content(response.content).raised THEN "no_json"
                ELSE "ok",
     data |-> IF response.status = "ok" /\ ~parse_content(response.content).raised
              THEN parse_content(response.content).value
              ELSE [intent |-> UNKNOWN],
     response |-> response]

Commentary == <<Char("S"), Char("u"), Char("r"), Char("e"), Char(":"), Char(" ")>>

\* contents: an object alone, with commentary around it, with members
\* missing, with a confidence out of range, in upper case; no braces, one
\* brace, braces in the wrong order, two objects, text inside the braces
Contents ==
    { <<Char("{"), Member("intent", "'cup'"), Member("region", "'Lazio'"),
        Member("confidence", "0.9"), Member("needs_region", "false"), Char("}")>>,
      Commentary \o <<Char("{"), Member("intent", "'bollo_auto'"),
                      Member("needs_region", "true"), Char("}"), Char("."), Char(" ")>>,
      <<Char("{"), Char(" "), Char("}")>>,
      <<Char("{"), Member("intent", "'cup'"), Member("region", "null"),
        Member("confidence", "1.5"), Char("}")>>,
      <<Char("{"), Member("intent", "'patente'"), Member("confidence", "-0.1"), Char("}")>>,
      <<Char("{"), Member("intent", "'CUP'"), Member("region", "'Lazio'"),
        Member("confidence", "1.0"), Char("}")>>,
      Commentary,
      <<Char("{"), Member("intent", "'cup'")>>,
      <<Char("}"), Member("intent", "'cup'"), Char("{")>>,
      <<Char("{"), Member("intent", "'cup'"), Char("}"), Char(" "),
        Char("{"), Member("intent", "'patente'"), Char("}")>>,
      <<Char("{"), Char("x"), Member("intent", "'cup'"), Char("}")>> }

Responses ==
    { Response("ok", content) : content \in Contents }
    \cup { Response(status, <<Char("{"), Member("intent", "'cup'"), Char("}")>>) :
             status \in {"http_error", "no_envelope"} }

MaxFailures == 4

\* outcomes of a call of the remote model: each response at the first
\* request, and two of them after failures
ClassifyOutcomes ==
    { Replied(0, response) : response \in Responses }
    \cup { Replied(failures, Response("ok", content)) :
             failures \in 1..MaxFailures,
             content \in { <<Char("{"), Member("intent", "'cup'"), Member("region", "'Lazio'"),
                             Member("confidence", "0.9"), Member("needs_region", "false"),
                             Char("}")>>,
                           Commentary } }

\* texts given to classify_async
ClassifyTexts ==
    { Lazio, <<"l","a","z","i","o">>, <<"L","a","z","i","o"," ">>, <<"r","o","m","a">>,
      <<" "," ">> }


(***************************************************************************)
(* Updates.  A text update carries one of the messages below; a command    *)
(* update carries /start or /help.                                         *)
(***************************************************************************)
Users == {"u1"}

Blank == <<" "," ">>
Short == <<"o","k">>
ControlShort == <<"SOH","a","b">>
Repetitive == repeat("a", 10)
Punctuation == <<"c","!","i","?","a",".","o",",","!","?",".",",">>
HelpText == <<"H","e","l","p"," ","m","e">>
AboutText == <<"c","h","i"," ","s","e","i">>
HelpAboutText == <<"a","i","u","t","o",","," ","c","h","i"," ","s","e","i","?">>
LazioText == <<" ","L","a","z","i","o"," ">>
RomaText == <<"r","o","m","a">>
LazoText == <<"l","a","z","o">>
TioText == <<"t","i","o">>
\* one character more than the limit, no two alike
TooLong == SubSeq(LowerLetters, 1, max_message_length + 1)

Messages ==
    {Blank, Short, ControlShort, Repetitive, Punctuation, TooLong,
     HelpText, AboutText, HelpAboutText, LazioText, RomaText, LazoText, TioText}

\* answers of the remote model
Atlantide == <<"A","t","l","a","n","t","i","d","e">>

Answer(intent, region, needs_region, confidence) ==
    [intent |-> intent, region |-> region, needs_region |-> needs_region,
     confidence |-> confidence]

RemoteData ==
    { Answer(FASCICOLO_SANITARIO, None, TRUE, 90),
      Answer(FASCICOLO_SANITARIO, None, FALSE, 90),
      Answer(BOLLO_AUTO, <<"l","a","z","i","o">>, TRUE, 90),
      Answer(<<"C","U","P">>, Atlantide, TRUE, 90),
      Answer(PATENTE, None, TRUE, 90),
      Answer(GREETING, None, FALSE, 90),
      Answer(CUP, None, TRUE, 150),
      [intent |-> PATENTE] }

Outcomes ==
    { [failures |-> 0, status |-> "ok", data |-> d] : d \in RemoteData }
    \cup { [failures |-> f, status |-> "ok",
            data |-> Answer(BOLLO_AUTO, None, TRUE, 90)] : f \in {1, max_attempts} }
    \cup { [failures |-> 0, status |-> st, data |-> [intent |-> CUP]] :
             st \in {"http_error", "no_json"} }

(***************************************************************************)
(* ResponseFormatterService (core/services/formatter.py): a reply is kept  *)
(* as its kind and the items it lists.                                     *)
(***************************************************************************)
Reply(kind, items) == [kind |-> kind, items |-> items]

format_region_request(example_regions) == Reply("region_request", prefix(example_regions, 3))

format_region_suggestions(suggestions) == Reply("region_suggestions", suggestions)

format_links_response(entries, max_links) ==
    IF entries = <<>> THEN Reply("no_links", <<>>)
    ELSE Reply("links", prefix(entries, max_links))

format_validation_error(error_message, suggestions) ==
    Reply("validation_error", <<error_message>> \o suggestions)

\* _send_links_response of both handler classes
_send_links_response(intent, region, service) ==
    With(get_links(service, intent, region),
         LAMBDA links :
             [links |-> links,
              reply |-> IF links # <<>>
                        THEN format_links_response(links, max_links_per_response)
                        ELSE Reply("no_links", <<>>)])


(***************************************************************************)
(* The validator is a pure function of its configuration and its input,    *)
(* so its results on the inputs of the model are tabulated once.           *)
(***************************************************************************)
SampleCatalog == CatalogService(SampleEntries, max_links_per_response)

SampleValidators == InputValidationServices(get_regions(SampleCatalog))

RegionTexts ==
    ({ strip(m) : m \in Messages }
        \cup { IF "region" \in DOMAIN d THEN d.region ELSE None : d \in RemoteData })
        \ {<<>>, None}

validate_message_table == Tabulate(Messages, validate_message)

pattern_table ==
    Tabulate({ validate_message_table[m].normalized_value : m \in Messages } \ {None},
             LAMBDA t : [help |-> _matches_patterns(t, HELP_PATTERNS),
                         about |-> _matches_patterns(t, ABOUT_PATTERNS)])

validate_region_table ==
    Tabulate(SampleValidators,
             LAMBDA v : Tabulate(RegionTexts, LAMBDA t : validate_region(v, t)))

validate_message_of(raw_text) == validate_message_table[raw_text]

\* the help shortcut never taken; C8 has to tell it from matches_help
matches_help_skipped(text) == FALSE

matches_help(text) == pattern_table[text].help

matches_about(text) == pattern_table[text].about

validate_region_of(v, region_text) == validate_region_table[v][region_text]

(***************************************************************************)
(* State of the running bot (core/bot.py).                                 *)
(*   catalog_service, validation_service : the services built by           *)
(*       _initialize_services                                              *)
(*   classification_cache : the lru_cache of ClassificationService         *)
(*   conversations : the states kept by the ConversationHandler, a dict    *)
(*       from conversation key to state; a user without a key is idle      *)
(*   user_data : context.user_data of every user, a dict                   *)
(*   last : what the handling of the last update did: its handler, the     *)
(*       text of the update, the reply sent, the classifications obtained, *)
(*       the catalog lookups made, the links they returned and the         *)
(*       requests sent to the remote model, the exception raised while it  *)
(*       was handled and whether that exception left the registered        *)
(*       handler                                                           *)
(*   elapsed : seconds since the last update of every user                 *)
(*   data_file : the content of the file at CatalogService.data_path       *)
(*   application : the telegram Application built by _setup_application:   *)
(*       its update_queue and the update it is processing while that       *)
(*       update's handler waits for the remote model                       *)
(***************************************************************************)
VARIABLES catalog_service, validation_service, classification_cache,
          conversations, user_data, last, elapsed, data_file, application

vars == <<catalog_service, validation_service, classification_cache,
          conversations, user_data, last, elapsed, data_file, application>>

ASK_REGION == 0
END == -1
cache_size_classifications == 1
conversation_timeout == 300

EmptyDict == [k \in {} |-> k]

\* ApplicationBuilder().token(...).build(): nothing queued, nothing in process
Application == [update_queue |-> <<>>, processing |-> <<>>]

dict_set(d, key, value) == [k \in DOMAIN d \cup {key} |-> IF k = key THEN value ELSE d[k]]

\* dict.pop leaving the key in place; C2 has to tell it from dict_pop
dict_pop_kept(d, key) == d

dict_pop(d, key) == [k \in DOMAIN d \ {key} |-> d[k]]

\* bool(value) of an Optional[str]
truthy(value) == value # None /\ value # <<>>

\* the outcome of an update for which the remote model is not called
NoValidation == Invalid("none", <<>>)

NoOutcome == [failures |-> 0, status |-> "none", data |-> [intent |-> UNKNOWN]]

Handled(user, handler, reply, classified, lookups, links, requests) ==
    [user |-> user, handler |-> handler, text |-> None, reply |-> reply,
     classified |-> classified, lookups |-> lookups, links |-> links,
     requests |-> requests, waits |-> <<>>, outcome |-> NoOutcome,
     validation |-> NoValidation, exception |-> "none", escaped |-> FALSE]

Init ==
    /\ catalog_service = SampleCatalog
    /\ validation_service \in InputValidationServices(get_regions(catalog_service))
    /\ classification_cache = <<>>
    /\ application = Application
    /\ conversations = EmptyDict
    /\ user_data = [u \in Users |-> EmptyDict]
    /\ last = Handled("none", "none", Reply("none", <<>>), <<>>, <<>>, <<>>, 0)
    /\ elapsed = [u \in Users |-> 0]
    /\ data_file = DataFile(SampleEntries)

\* ConversationHandler: the state a handler returns is stored, END removes
\* the conversation, None leaves it as it is
_update_state(states, key, new_state) ==
    IF new_state = <<>> THEN states
    ELSE IF new_state[1] = END THEN dict_pop(states, key)
    ELSE dict_set(states, key, new_state[1])

\* MessageHandler._handle_service_intent
_handle_service_intent(user, intent_request, requests) ==
    With(intent_request.classification,
         LAMBDA classification :
             IF /\ requires_region(classification.intent)
                /\ ~truthy(classification.region)
                /\ classification.needs_region
             THEN [new_state |-> <<ASK_REGION>>,
                   user_data |-> dict_set(dict_set(user_data[user],
                                     "pending_intent", classification.intent),
                                     "pending_request", intent_request),
                   last |-> Handled(user, "handle_message",
                               format_region_request(prefix(get_regions(catalog_service), 3)),
                               <<classification>>, <<>>, <<>>, requests)]
             ELSE With(_send_links_response(classification.intent, classification.region,
                                            catalog_service),
                       LAMBDA sent :
                           [new_state |-> <<>>,
                            user_data |-> user_data[user],
                            last |-> Handled(user, "handle_message", sent.reply,
                                        <<classification>>,
                                        <<[intent |-> classification.intent,
                                           region |-> classification.region]>>,
                                        sent.links, requests)]))

\* handle_message: "Normalize region if provided by LLM"
normalize_region(classification) ==
    IF truthy(classification.region)
    THEN With(validate_region_of(validation_service, classification.region),
              LAMBDA region_validation :
                  [classification EXCEPT
                       !.region = IF region_validation.is_valid
                                  THEN region_validation.normalized_value
                                  ELSE None])
    ELSE classification

\* MessageHandler.handle_message on a text update of an idle user
message_result(user, raw_text, outcome) ==
    LET quiet(reply) ==
            [new_state |-> <<>>, user_data |-> user_data[user],
             cache |-> classification_cache,
             last |-> Handled(user, "handle_message", reply, <<>>, <<>>, <<>>, 0)]
    IN
    With(validate_message_of(raw_text),
         LAMBDA validation_result :
             IF ~validation_result.is_valid
             THEN quiet(format_validation_error(validation_result.error_message,
                                                validation_result.suggestions))
             ELSE
    With(validation_result.normalized_value,
         LAMBDA text :
             IF matches_help(text) THEN quiet(Reply("help", <<>>))
             ELSE IF matches_about(text) THEN quiet(Reply("about", <<>>))
             ELSE
    With(classify_async(classification_cache, cache_size_classifications, text, outcome),
         LAMBDA classified :
    With(normalize_region(classified.classification),
         LAMBDA classification :
             IF is_conversational(classification.intent)
             THEN [new_state |-> <<>>, user_data |-> user_data[user],
                   cache |-> classified.cache,
                   last |-> Handled(user, "handle_message",
                               Reply("conversational", <<classification.intent>>),
                               <<classification>>, <<>>, <<>>, classified.requests)]
             ELSE
    With(_handle_service_intent(user,
                                [user_id |-> user, message_text |-> text,
                                 classification |-> classification],
                                classified.requests),
         LAMBDA service :
             [new_state |-> service.new_state, user_data |-> service.user_data,
              cache |-> classified.cache, last |-> service.last])))))


(***************************************************************************)
(* Handling of one update (Application.process_update over the handlers    *)
(* that _setup_application registers, in their order).  Updates are        *)
(* handled one at a time, each handler to its end.                         *)
(***************************************************************************)

\* whether handle_message reaches the remote model for this text: the text is
\* valid, matches no pattern and is not in the cache
calls_remote(raw_text) ==
    With(validate_message_of(raw_text),
         LAMBDA validation_result :
             /\ validation_result.is_valid
             /\ ~matches_help(validation_result.normalized_value)
             /\ ~matches_about(validation_result.normalized_value)
             /\ ~CacheHit(classification_cache,
                          cache_key(validation_result.normalized_value)))

\* handle_message reached in any state of the conversation; C4 has to tell
\* it from handle_message
handle_message_in_any_state(user, raw_text, outcome) ==
    /\ LET result == message_result(user, raw_text, outcome)
       IN  /\ conversations' = _update_state(conversations, user, result.new_state)
           /\ user_data' = [user_data EXCEPT ![user] = result.user_data]
           /\ classification_cache' = result.cache
           /\ last' = [result.last EXCEPT !.text = raw_text]
    /\ elapsed' = [elapsed EXCEPT ![user] = 0]
    /\ UNCHANGED <<catalog_service, validation_service, data_file, application>>

\* A text update of a user without a conversation reaches the entry point
\* of the ConversationHandler, MessageHandler.handle_message.
handle_message(user, raw_text, outcome) ==
    /\ user \notin DOMAIN conversations
    /\ LET result == message_result(user, raw_text, outcome)
       IN  /\ conversations' = _update_state(conversations, user, result.new_state)
           /\ user_data' = [user_data EXCEPT ![user] = result.user_data]
           /\ classification_cache' = result.cache
           /\ last' = [result.last EXCEPT !.text = raw_text]
    /\ elapsed' = [elapsed EXCEPT ![user] = 0]
    /\ UNCHANGED <<catalog_service, validation_service, data_file, application>>

\* ConversationHandlers.handle_region_selection
region_result(user, raw_text) ==
    LET data == user_data[user]
        said(reply) == Handled(user, "handle_region_selection", reply, <<>>, <<>>, <<>>, 0)
    IN  IF "pending_intent" \notin DOMAIN data \/ ~truthy(data.pending_intent)
        THEN [new_state |-> <<END>>, user_data |-> data,
              last |-> said(Reply("error_generic", <<>>))]
        ELSE IF strip(raw_text) = <<>>
        THEN [new_state |-> <<ASK_REGION>>, user_data |-> data,
              last |-> said(format_region_request(
                                prefix(get_regions(catalog_service), 5)))]
        ELSE
        With(validate_region_of(validation_service, strip(raw_text)),
             LAMBDA validation_result :
                 IF ~validation_result.is_valid
                 THEN [new_state |-> <<ASK_REGION>>, user_data |-> data,
                       last |-> said(format_region_suggestions(
                                         validation_result.suggestions))]
                 ELSE
        With(_send_links_response(data.pending_intent,
                                  validation_result.normalized_value, catalog_service),
             LAMBDA sent :
                 [new_state |-> <<END>>,
                  user_data |-> dict_pop(dict_pop(data, "pending_intent"),
                                         "pending_request"),
                  last |-> Handled(user, "handle_region_selection", sent.reply, <<>>,
                              <<[intent |-> data.pending_intent,
                                 region |-> validation_result.normalized_value]>>,
                              sent.links, 0)]))

\* A text update of a user whose conversation is in ASK_REGION reaches the
\* handler of that state.
handle_region_selection(user, raw_text) ==
    /\ user \in DOMAIN conversations
    /\ conversations[user] = ASK_REGION
    /\ LET result == region_result(user, raw_text)
       IN  /\ conversations' = _update_state(conversations, user, result.new_state)
           /\ user_data' = [user_data EXCEPT ![user] = result.user_data]
           /\ last' = [result.last EXCEPT !.text = raw_text]
    /\ elapsed' = [elapsed EXCEPT ![user] = 0]
    /\ UNCHANGED <<catalog_service, validation_service, classification_cache, data_file, application>>

\* /start and /help match the CommandHandlers registered ahead of the
\* ConversationHandler, so its fallbacks never see them.  Both commands
\* reply with the help text and return None.
_start_command(user) ==
    /\ last' = Handled(user, "start", Reply("help", <<>>), <<>>, <<>>, <<>>, 0)
    /\ elapsed' = [elapsed EXCEPT ![user] = 0]
    /\ UNCHANGED <<catalog_service, validation_service, classification_cache,
                   conversations, user_data, data_file, application>>

_help_command(user) ==
    /\ last' = Handled(user, "help", Reply("help", <<>>), <<>>, <<>>, <<>>, 0)
    /\ elapsed' = [elapsed EXCEPT ![user] = 0]
    /\ UNCHANGED <<catalog_service, validation_service, classification_cache,
                   conversations, user_data, data_file, application>>

Next ==
    \E user \in Users :
        \/ \E raw_text \in Messages :
               \E outcome \in IF calls_remote(raw_text) THEN Outcomes ELSE {NoOutcome} :
                   handle_message(user, raw_text, outcome)
        \/ \E raw_text \in Messages : handle_region_selection(user, raw_text)
        \/ _start_command(user)
        \/ _help_command(user)

Spec == Init /\ [][Next]_vars

(***************************************************************************)
(* The passing of time.  The ConversationHandler of _setup_application is  *)
(* built without conversation_timeout, so no job is scheduled and the      *)
(* program does nothing when time passes.                                  *)
(***************************************************************************)
TimePasses(user) ==
    /\ elapsed[user] < conversation_timeout
    /\ elapsed' = [elapsed EXCEPT ![user] = elapsed[user] + conversation_timeout]
    /\ UNCHANGED <<catalog_service, validation_service, classification_cache,
                   conversations, user_data, last, data_file, application>>

NextTimed == Next \/ \E user \in Users : TimePasses(user)

SpecTimed == Init /\ [][NextTimed]_vars

(***************************************************************************)
(* Catalog lookups on their own: any of the catalogs under any limit, and  *)
(* calls of CatalogService.get_links with any arguments.                   *)
(***************************************************************************)
InitCatalog ==
    /\ \E d \in DOMAIN Datasets, limit \in Limits :
           /\ catalog_service = CatalogService(Datasets[d], limit)
           /\ data_file = DataFile(Datasets[d])
    /\ validation_service \in InputValidationServices(get_regions(catalog_service))
    /\ classification_cache = <<>>
    /\ application = Application
    /\ conversations = EmptyDict
    /\ user_data = [u \in Users |-> EmptyDict]
    /\ last = Handled("none", "none", Reply("none", <<>>), <<>>, <<>>, <<>>, 0)
    /\ elapsed = [u \in Users |-> 0]

Lookup(intent, region) ==
    /\ last' = Handled("none", "get_links", Reply("none", <<>>), <<>>,
                   <<[intent |-> intent, region |-> region]>>,
                   get_links(catalog_service, intent, region), 0)
    /\ UNCHANGED <<catalog_service, validation_service, classification_cache,
                   conversations, user_data, elapsed, data_file, application>>

NextCatalog ==
    \E intent \in QueryIntents, r \in DOMAIN QueryRegions : Lookup(intent, QueryRegions[r])

SpecCatalog == InitCatalog /\ [][NextCatalog]_vars

(***************************************************************************)
(* The catalog service built on any of the data files, and lookups in it.  *)
(***************************************************************************)
InitLoad ==
    /\ data_file \in DataFiles
    /\ catalog_service = LoadedCatalogService(data_file, max_links_per_response)
    /\ validation_service \in InputValidationServices(get_regions(catalog_service))
    /\ classification_cache = <<>>
    /\ application = Application
    /\ conversations = EmptyDict
    /\ user_data = [u \in Users |-> EmptyDict]
    /\ last = Handled("none", "none", Reply("none", <<>>), <<>>, <<>>, <<>>, 0)
    /\ elapsed = [u \in Users |-> 0]

SpecLoad == InitLoad /\ [][NextCatalog]_vars

(***************************************************************************)
(* Reloading: the file at data_path is rewritten by its maintainer, and    *)
(* PAstaLinkBot.reload_catalog is called between lookups.                  *)
(***************************************************************************)
WriteDataFile(file) ==
    /\ file # data_file
    /\ data_file' = file
    /\ last' = Handled("none", "write_file", Reply("none", <<>>), <<>>, <<>>, <<>>, 0)
    /\ UNCHANGED <<catalog_service, validation_service, classification_cache,
                   conversations, user_data, elapsed, application>>

\* PAstaLinkBot.reload_catalog: update_regions is reached only when the
\* service reports success
PAstaLinkBot_reload_catalog ==
    LET reloaded == reload_catalog(catalog_service, data_file)
    IN  /\ catalog_service' = reloaded.service
        /\ IF reloaded.success
           THEN validation_service' \in
                    update_regions(validation_service, get_regions(reloaded.service))
           ELSE validation_service' = validation_service
        /\ last' = Handled("none", "reload_catalog",
                       Reply(IF reloaded.success THEN "reloaded" ELSE "reload_failed", <<>>),
                       <<>>, <<>>, <<>>, 0)
        /\ UNCHANGED <<classification_cache, conversations, user_data, elapsed,
                       data_file, application>>

ReloadIntents == {CUP, BOLLO_AUTO}

ReloadRegions == <<None, Lazio, Veneto>>

NextReload ==
    \/ \E file \in DataFiles : WriteDataFile(file)
    \/ PAstaLinkBot_reload_catalog
    \/ \E intent \in ReloadIntents, r \in DOMAIN ReloadRegions :
           Lookup(intent, ReloadRegions[r])

SpecReload == InitLoad /\ [][NextReload]_vars

(***************************************************************************)
(* The classification service on its own: calls of classify_async with any *)
(* text and any behaviour of the remote model, and clear_cache.            *)
(***************************************************************************)
\* whether classify_async reaches _classify_internal for this text
misses_cache(text) ==
    /\ text # <<>>
    /\ strip(text) # <<>>
    /\ ~CacheHit(classification_cache, cache_key(text))

\* ClassificationService.classify_async
classify(text, outcome) ==
    /\ LET result == classify_async(classification_cache, cache_size_classifications,
                                    text, outcome)
       IN  /\ classification_cache' = result.cache
           /\ last' = [Handled("none", "classify_async", Reply("none", <<>>),
                               <<result.classification>>, <<>>, <<>>, result.requests)
                           EXCEPT !.text = text,
                                  !.waits = IF outcome = NoOutcome THEN <<>>
                                            ELSE waits_made(outcome),
                                  !.outcome = outcome]
    /\ UNCHANGED <<catalog_service, validation_service, conversations, user_data,
                   elapsed, data_file, application>>

\* ClassificationService.clear_cache
clear_cache ==
    /\ classification_cache # <<>>
    /\ classification_cache' = <<>>
    /\ last' = Handled("none", "clear_cache", Reply("none", <<>>), <<>>, <<>>, <<>>, 0)
    /\ UNCHANGED <<catalog_service, validation_service, conversations, user_data,
                   elapsed, data_file, application>>

NextClassify ==
    \/ \E text \in ClassifyTexts :
           \E outcome \in IF misses_cache(text) THEN ClassifyOutcomes ELSE {NoOutcome} :
               classify(text, outcome)
    \/ clear_cache

SpecClassify == Init /\ [][NextClassify]_vars

(***************************************************************************)
(* The region resolver on its own: services built on several region lists  *)
(* and thresholds, update_regions and validate_region.                     *)
(***************************************************************************)
\* lists of region names: one with two names of one normalized form
RegionLists ==
    << <<Lazio, Lombardia, Veneto>>,
       <<Lazio, lower(Lazio)>>,
       <<Toscana, Lazio>>,
       <<Veneto>>,
       <<>> >>

\* fuzzy_match_threshold and suggestion_threshold, in hundredths
Thresholds == { <<70, 40>>, <<70, 90>>, <<50, 50>> }

VenettoText == <<"v","e","n","e","t","t","o">>

RegionInputs ==
    UNION { Range(RegionLists[i]) : i \in DOMAIN RegionLists }
        \cup {LazoText, TioText, RomaText, VenettoText, <<"x","y","z">>, <<"-">>}

InitRegions ==
    /\ catalog_service = SampleCatalog
    /\ \E i \in DOMAIN RegionLists, t \in Thresholds :
           validation_service \in ConfiguredValidationServices(RegionLists[i], t[1], t[2])
    /\ classification_cache = <<>>
    /\ application = Application
    /\ conversations = EmptyDict
    /\ user_data = [u \in Users |-> EmptyDict]
    /\ last = Handled("none", "none", Reply("none", <<>>), <<>>, <<>>, <<>>, 0)
    /\ elapsed = [u \in Users |-> 0]
    /\ data_file = DataFile(SampleEntries)

InputValidationService_update_regions(new_regions) ==
    /\ validation_service' \in update_regions(validation_service, new_regions)
    /\ last' = Handled("none", "update_regions", Reply("none", <<>>), <<>>, <<>>, <<>>, 0)
    /\ UNCHANGED <<catalog_service, classification_cache, conversations, user_data,
                   elapsed, data_file, application>>

InputValidationService_validate_region(region_text) ==
    /\ last' = [Handled("none", "validate_region", Reply("none", <<>>), <<>>, <<>>, <<>>, 0)
                   EXCEPT !.text = region_text,
                          !.validation = validate_region(validation_service, region_text)]
    /\ UNCHANGED <<catalog_service, validation_service, classification_cache,
                   conversations, user_data, elapsed, data_file, application>>

NextRegions ==
    \/ \E i \in DOMAIN RegionLists : InputValidationService_update_regions(RegionLists[i])
    \/ \E region_text \in RegionInputs : InputValidationService_validate_region(region_text)

SpecRegions == InitRegions /\ [][NextRegions]_vars


(***************************************************************************)
(* Failures while an update is handled.  One of the collaborators of the   *)
(* handler fails for the whole handling of the update:                     *)
(*   resolver  : InputValidationService.validate_region raises             *)
(*   catalog   : the lookup inside CatalogIndex.get_entries raises         *)
(*   formatter : the ResponseFormatterService method that composes the     *)
(*               response raises (format_error_response has its own        *)
(*               except clause and still returns the generic text)         *)
(*   rejected  : Telegram refuses the composed response, by edit_text and  *)
(*               by reply_text, and accepts the generic error text         *)
(*   down      : every call of the Bot API fails                           *)
(***************************************************************************)
Faults == {"none", "resolver", "catalog", "formatter", "rejected", "down"}

Apology == Reply("error_generic", <<>>)

NoReply == Reply("none", <<>>)

\* the handler ran to its end; `exception` names the failure it absorbed
returned(result, exception) ==
    [new_state |-> result.new_state, user_data |-> result.user_data,
     cache |-> result.cache, raised |-> FALSE,
     last |-> [result.last EXCEPT !.exception = exception]]

\* the handler caught the exception and replied with
\* format_error_response("generic"); it returns None
apologized(result, exception) ==
    [new_state |-> <<>>, user_data |-> result.user_data,
     cache |-> result.cache, raised |-> FALSE,
     last |-> [result.last EXCEPT !.reply = Apology, !.exception = exception]]

\* the exception left the handler function; nothing has reached the user
raised(result, data, exception) ==
    [new_state |-> <<>>, user_data |-> data,
     cache |-> result.cache, raised |-> TRUE,
     last |-> [result.last EXCEPT !.reply = NoReply, !.exception = exception]]

\* handle_telegram_errors without its except clause; C22 has to tell it from
\* handle_telegram_errors
handle_telegram_errors_absent(result, fault) == result

\* utils/decorators.py handle_telegram_errors, the outermost decorator of
\* every registered handler: an exception of the handler is logged, the
\* generic error message is sent through update.message.reply_text, a
\* failure of that send is logged, and the wrapper returns None
handle_telegram_errors(result, fault) ==
    IF result.raised
    THEN [result EXCEPT !.raised = FALSE,
                        !.new_state = <<>>,
                        !.last.reply = IF fault = "down" THEN NoReply ELSE Apology]
    ELSE result

\* MessageHandlers.handle_message on a text update of an idle user while
\* `fault` lasts
message_outcome(user, raw_text, outcome, fault) ==
    LET result == [message_result(user, raw_text, outcome) EXCEPT !.last.text = raw_text]
        validation_result == validate_message_of(raw_text)
        text == validation_result.normalized_value
        before_try ==
            \/ ~validation_result.is_valid
            \/ matches_help(text)
            \/ matches_about(text)
        classified ==
            classify_async(classification_cache, cache_size_classifications, text, outcome)
        kind == result.last.reply.kind
    IN  IF before_try
        THEN \* the reply is composed and sent ahead of the try statement
             IF fault \in {"formatter", "rejected", "down"}
             THEN raised(result, user_data[user], fault)
             ELSE returned(result, "none")
        ELSE IF fault = "resolver" /\ truthy(classified.classification.region)
        THEN \* validate_region raises inside the try statement
             apologized([result EXCEPT !.user_data = user_data[user],
                                       !.last.classified = <<classified.classification>>,
                                       !.last.lookups = <<>>, !.last.links = <<>>],
                        fault)
        ELSE IF fault = "down"
        THEN \* no placeholder; the reply and the apology of the except clause
             \* both fail, with what _handle_service_intent stored left behind
             raised(result, result.user_data, fault)
        ELSE IF fault = "rejected"
        THEN apologized(result, fault)
        ELSE IF fault = "formatter" /\ kind \in {"conversational", "region_request", "links"}
        THEN apologized(result, fault)
        ELSE IF fault = "catalog" /\ result.last.lookups # <<>>
        THEN \* get_entries catches it and returns no entry
             returned([result EXCEPT !.last.links = <<>>,
                                     !.last.reply = Reply("no_links", <<>>)], fault)
        ELSE returned(result, "none")

\* ConversationHandlers.handle_region_selection while `fault` lasts; the
\* method has no except clause of its own, _send_links_response has one
region_outcome(user, raw_text, fault) ==
    LET data == user_data[user]
        found == region_result(user, raw_text)
        result == [new_state |-> found.new_state, user_data |-> found.user_data,
                   cache |-> classification_cache,
                   last |-> [found.last EXCEPT !.text = raw_text]]
        pending == "pending_intent" \in DOMAIN data /\ truthy(data.pending_intent)
        empty == strip(raw_text) = <<>>
        kind == result.last.reply.kind
    IN  IF ~pending
        THEN IF fault = "down" THEN raised(result, data, fault)
             ELSE returned(result, "none")
        ELSE IF empty
        THEN IF fault \in {"formatter", "rejected", "down"}
             THEN raised(result, data, fault)
             ELSE returned(result, "none")
        ELSE IF fault = "resolver"
        THEN raised(result, data, fault)
        ELSE IF kind = "region_suggestions"
        THEN IF fault \in {"formatter", "rejected", "down"}
             THEN raised(result, data, fault)
             ELSE returned(result, "none")
        ELSE \* a valid region: _send_links_response, then the two pops
             IF fault = "down"
             THEN raised(result, data, fault)
             ELSE IF fault = "rejected" \/ (fault = "formatter" /\ kind = "links")
             THEN [apologized(result, fault) EXCEPT !.new_state = result.new_state]
             ELSE IF fault = "catalog"
             THEN returned([result EXCEPT !.last.links = <<>>,
                                          !.last.reply = Reply("no_links", <<>>)], fault)
             ELSE returned(result, "none")



(***************************************************************************)
(* The /stats command (core/handlers/commands.py).                         *)
(***************************************************************************)
\* CommandHandlers.admin_user_ids, from Settings.admin_user_ids
Admins == {"u1"}

\* what _create_stats_wrapper passes to require_admin:
\* lambda self: self.admin_user_ids
admin_user_ids_of_wrapper == [kind |-> "function"]

\* the set itself; C30 is checked against the lambda
admin_user_ids_as_set == [kind |-> "set", items |-> Admins]

\* `item not in container`: a function is no container and the test raises
\* TypeError
not_in(item, container) ==
    IF container.kind = "set"
    THEN [raised |-> FALSE, value |-> item \notin container.items]
    ELSE [raised |-> TRUE, value |-> FALSE]

\* utils/decorators.py require_admin around CommandHandlers._stats_command
require_admin(admin_user_ids, user) ==
    LET said(reply) ==
            [new_state |-> <<>>, user_data |-> user_data[user],
             cache |-> classification_cache, raised |-> FALSE,
             last |-> Handled(user, "stats", reply, <<>>, <<>>, <<>>, 0)]
        test == not_in(user, admin_user_ids)
    IN  IF test.raised
        THEN raised(said(NoReply), user_data[user], "TypeError")
        ELSE IF test.value THEN said(Reply("admin_only", <<>>))
        ELSE said(Reply("stats", <<>>))

(***************************************************************************)
(* The running Application (PAstaLinkBot.run).  It is built without        *)
(* concurrent_updates and every handler is registered with the default     *)
(* block=True, so the update fetcher awaits the handling of one update     *)
(* before it takes the next one from update_queue.  The only place where   *)
(* a handler waits for something other than the Bot API is the await of    *)
(* classify_async in handle_message.                                       *)
(***************************************************************************)
Sessions == {"u1", "u2"}

MaxQueue == 1

SessionTexts == {Blank, LazioText}

SessionOutcomes ==
    { [failures |-> 0, status |-> "ok", data |-> d] :
          d \in { Answer(FASCICOLO_SANITARIO, None, TRUE, 90),
                  Answer(BOLLO_AUTO, <<"l","a","z","i","o">>, TRUE, 90) } }
    \cup { [failures |-> 0, status |-> "http_error", data |-> [intent |-> CUP]] }

TextUpdate(user, text) == [user |-> user, kind |-> "text", text |-> text]

CommandUpdate(user, command) == [user |-> user, kind |-> command, text |-> None]

Updates ==
    { TextUpdate(user, text) : user \in Sessions, text \in SessionTexts }
    \cup { CommandUpdate(user, command) : user \in Sessions,
                                          command \in {"start", "stats"} }

InitSessions ==
    /\ catalog_service = SampleCatalog
    /\ validation_service \in SampleValidators
    /\ classification_cache = <<>>
    /\ application = Application
    /\ conversations = EmptyDict
    /\ user_data = [u \in Sessions |-> EmptyDict]
    /\ last = Handled("none", "none", NoReply, <<>>, <<>>, <<>>, 0)
    /\ elapsed = [u \in Sessions |-> 0]
    /\ data_file = DataFile(SampleEntries)

\* the Updater puts an update it received into Application.update_queue
put_update(update) ==
    /\ Len(application.update_queue) < MaxQueue
    /\ application' = [application EXCEPT !.update_queue = Append(@, update)]
    /\ UNCHANGED <<catalog_service, validation_service, classification_cache,
                   conversations, user_data, last, elapsed, data_file>>

\* every update handled as soon as it is queued; C23 has to tell it from
\* _update_fetcher
_update_fetcher_concurrent(app) == app.update_queue # <<>>

\* Application._update_fetcher: the next update is taken when the handling
\* of the one before has returned
_update_fetcher(app) == app.update_queue # <<>> /\ app.processing = <<>>

\* one user_data for every user; C24 has to tell it from context_user_data
context_user_data_shared(all_user_data, user, data) ==
    [u \in DOMAIN all_user_data |-> data]

\* context.user_data, which the handlers write their pending intent and
\* request to, is the dict of the user of the update
context_user_data(all_user_data, user, data) ==
    [all_user_data EXCEPT ![user] = data]

\* what the registered handler, under its decorators, leaves behind
_handled(update, result, outcome, fault) ==
    LET done == handle_telegram_errors(result, fault)
    IN  /\ conversations' = _update_state(conversations, update.user, done.new_state)
        /\ user_data' = context_user_data(user_data, update.user, done.user_data)
        /\ classification_cache' = done.cache
        /\ last' = [done.last EXCEPT !.outcome = outcome, !.escaped = done.raised]
        /\ elapsed' = [elapsed EXCEPT ![update.user] = 0]
        /\ UNCHANGED <<catalog_service, validation_service, data_file>>

\* a text of an idle session that has to be classified by the remote model:
\* handle_message runs up to the await of classify_async
handle_message_awaits ==
    /\ _update_fetcher(application)
    /\ LET update == Head(application.update_queue)
       IN  /\ update.kind = "text"
           /\ update.user \notin DOMAIN conversations
           /\ calls_remote(update.text)
           /\ application' = [update_queue |-> Tail(application.update_queue),
                              processing |-> <<update>>]
    /\ UNCHANGED <<catalog_service, validation_service, classification_cache,
                   conversations, user_data, last, elapsed, data_file>>

\* the remote model has answered, or the attempts are used up: the waiting
\* handle_message runs to its end
handle_message_resumes(outcome, fault) ==
    /\ application.processing # <<>>
    /\ LET update == application.processing[1]
       IN  _handled(update,
                    message_outcome(update.user, update.text, outcome, fault),
                    outcome, fault)
    /\ application' = [application EXCEPT !.processing = <<>>]

\* a text of an idle session that is answered without the remote model;
\* `outcome` is what the remote model would have answered
handle_message_at_once(outcome, fault) ==
    /\ _update_fetcher(application)
    /\ LET update == Head(application.update_queue)
       IN  /\ update.kind = "text"
           /\ update.user \notin DOMAIN conversations
           /\ ~calls_remote(update.text)
           /\ _handled(update,
                       message_outcome(update.user, update.text, outcome, fault),
                       outcome, fault)
    /\ application' = [application EXCEPT !.update_queue = Tail(@)]

\* a text of a session in ASK_REGION
region_handler(fault) ==
    /\ _update_fetcher(application)
    /\ LET update == Head(application.update_queue)
       IN  /\ update.kind = "text"
           /\ update.user \in DOMAIN conversations
           /\ conversations[update.user] = ASK_REGION
           /\ _handled(update, region_outcome(update.user, update.text, fault),
                       NoOutcome, fault)
    /\ application' = [application EXCEPT !.update_queue = Tail(@)]

\* /start, in any state of the conversation: _start_command replies with
\* the help text and returns None
start_handler ==
    /\ _update_fetcher(application)
    /\ LET update == Head(application.update_queue)
       IN  /\ update.kind = "start"
           /\ last' = Handled(update.user, "start", Reply("help", <<>>),
                              <<>>, <<>>, <<>>, 0)
           /\ elapsed' = [elapsed EXCEPT ![update.user] = 0]
    /\ application' = [application EXCEPT !.update_queue = Tail(@)]
    /\ UNCHANGED <<catalog_service, validation_service, classification_cache,
                   conversations, user_data, data_file>>

\* /stats, in any state of the conversation
stats_handler ==
    /\ _update_fetcher(application)
    /\ LET update == Head(application.update_queue)
       IN  /\ update.kind = "stats"
           /\ _handled(update, require_admin(admin_user_ids_of_wrapper, update.user),
                       NoOutcome, "none")
    /\ application' = [application EXCEPT !.update_queue = Tail(@)]

NextSessions ==
    \/ \E update \in Updates : put_update(update)
    \/ handle_message_awaits
    \/ \E outcome \in SessionOutcomes, fault \in Faults :
           handle_message_resumes(outcome, fault)
    \/ \E outcome \in SessionOutcomes, fault \in Faults :
           handle_message_at_once(outcome, fault)
    \/ \E fault \in Faults : region_handler(fault)
    \/ start_handler
    \/ stats_handler

SpecSessions == InitSessions /\ [][NextSessions]_vars



(***************************************************************************)
(* Properties of the conversation.                                         *)
(***************************************************************************)
Idle(user) == user \notin DOMAIN conversations

AwaitingRegion(user) == user \in DOMAIN conversations /\ conversations[user] = ASK_REGION

HasPending(user) ==
    \/ "pending_intent" \in DOMAIN user_data[user]
    \/ "pending_request" \in DOMAIN user_data[user]

\* C1: a free text of an idle user leaves the session awaiting a region if
\* and only if the classified intent is fascicolo_sanitario, bollo_auto or
\* cup, no region was resolved and the classifier set needs_region; then the
\* intent and the request are stored as pending and the reply asks for a
\* region with at most 3 examples.  For any other service intent the catalog
\* is looked up, the reply carries the links or says there are none, and the
\* session stays idle.
C1_AskRegionIff ==
    (last.handler = "handle_message" /\ last.classified # <<>>) =>
        LET user == last.user
            classification == last.classified[1]
            ask == /\ classification.intent \in {FASCICOLO_SANITARIO, BOLLO_AUTO, CUP}
                   /\ ~truthy(classification.region)
                   /\ classification.needs_region
        IN  /\ AwaitingRegion(user) <=> ask
            /\ ask =>
                   /\ "pending_intent" \in DOMAIN user_data[user]
                   /\ user_data[user].pending_intent = classification.intent
                   /\ "pending_request" \in DOMAIN user_data[user]
                   /\ user_data[user].pending_request.classification = classification
                   /\ user_data[user].pending_request.message_text
                          = sanitize_input(last.text)
                   /\ last.reply.kind = "region_request"
                   /\ Len(last.reply.items) <= 3
                   /\ last.lookups = <<>>
            /\ (~ask /\ ~is_conversational(classification.intent)) =>
                   /\ last.lookups = <<[intent |-> classification.intent,
                                        region |-> classification.region]>>
                   /\ last.links = get_links(catalog_service, classification.intent,
                                             classification.region)
                   /\ last.reply.kind = IF last.links = <<>> THEN "no_links" ELSE "links"
                   /\ Idle(user)
                   /\ ~HasPending(user)

\* the classifier answered CUP with a region nobody knows and needs_region:
\* the session awaits a region for cup, three examples were offered
C1_Witness ==
    /\ last.handler = "handle_message"
    /\ AwaitingRegion(last.user)
    /\ last.classified # <<>>
    /\ last.classified[1].intent = CUP
    /\ last.classified[1].region = None
    /\ Len(last.reply.items) = 3
    /\ user_data[last.user].pending_intent = CUP

\* C2: while a region is awaited, a reply that validate_region accepts makes
\* the handler look up the links of the pending intent in the resolved
\* region, send the reply, remove the pending request and end the
\* conversation.
C2_ValidRegionEnds ==
    [][ \A user \in Users : \A raw_text \in Messages :
          ( /\ last'.handler = "handle_region_selection"
            /\ "pending_intent" \in DOMAIN user_data[user]
            /\ handle_region_selection(user, raw_text)
            /\ strip(raw_text) # <<>>
            /\ validate_region(validation_service, strip(raw_text)).is_valid )
          => LET region == validate_region(validation_service,
                                           strip(raw_text)).normalized_value
                 intent == user_data[user].pending_intent
             IN  /\ region \in validation_service.regions
                 /\ last'.lookups = <<[intent |-> intent, region |-> region]>>
                 /\ last'.links = get_links(catalog_service, intent, region)
                 /\ last'.reply.kind = IF last'.links = <<>> THEN "no_links" ELSE "links"
                 /\ "pending_intent" \notin DOMAIN user_data'[user]
                 /\ "pending_request" \notin DOMAIN user_data'[user]
                 /\ user \notin DOMAIN conversations' ]_vars

\* "roma" answered the request for a region: the links of Lazio were looked
\* up and the session is idle again
C2_Witness ==
    /\ last.handler = "handle_region_selection"
    /\ last.text = RomaText
    /\ last.lookups # <<>>
    /\ last.lookups[1].region = Lazio
    /\ last.links # <<>>
    /\ Idle(last.user)
    /\ ~HasPending(last.user)

\* C3: while a region is awaited, a reply that is empty or that
\* validate_region rejects leaves the conversation in ASK_REGION and the
\* pending request as it was; the reply carries at most 3 suggestions, or
\* asks for the region again when the reply was empty; no lookup is made.
C3_InvalidRegionStays ==
    [][ \A user \in Users : \A raw_text \in Messages :
          ( /\ last'.handler = "handle_region_selection"
            /\ "pending_intent" \in DOMAIN user_data[user]
            /\ handle_region_selection(user, raw_text)
            /\ \/ strip(raw_text) = <<>>
               \/ ~validate_region(validation_service, strip(raw_text)).is_valid )
          => /\ user \in DOMAIN conversations'
             /\ conversations'[user] = ASK_REGION
             /\ user_data'[user] = user_data[user]
             /\ last'.lookups = <<>>
             /\ last'.links = <<>>
             /\ last'.reply.kind = IF strip(raw_text) = <<>> THEN "region_request"
                                   ELSE "region_suggestions"
             /\ Len(last'.reply.items) <= 3 ]_vars

\* "tio" answered the request for a region: three regions were suggested and
\* the region is still awaited
C3_Witness ==
    /\ last.handler = "handle_region_selection"
    /\ last.text = TioText
    /\ last.reply.kind = "region_suggestions"
    /\ Len(last.reply.items) = 3
    /\ AwaitingRegion(last.user)
    /\ HasPending(last.user)

\* C4: while a region is awaited, a text of the user is handled by
\* handle_region_selection only; that handling sends no request to the remote
\* model, obtains no classification, leaves the classification cache alone
\* and does not change the pending intent.
C4_RegionAnswerNotClassified ==
    [][ /\ \A user \in Users :
              ( /\ AwaitingRegion(user)
                /\ last' # last
                /\ last'.user = user
                /\ last'.handler \notin {"start", "help"} )
              => last'.handler = "handle_region_selection"
        /\ \A user \in Users : \A raw_text \in Messages :
              ( /\ last'.handler = "handle_region_selection"
                /\ handle_region_selection(user, raw_text) )
              => /\ last'.requests = 0
                 /\ last'.classified = <<>>
                 /\ classification_cache' = classification_cache
                 /\ "pending_intent" \in DOMAIN user_data'[user]
                        => /\ "pending_intent" \in DOMAIN user_data[user]
                           /\ user_data'[user].pending_intent
                                  = user_data[user].pending_intent ]_vars

\* "Help me", which an idle user gets the help text for, was taken as the
\* answer to the request for a region
C4_Witness ==
    /\ last.handler = "handle_region_selection"
    /\ last.text = HelpText
    /\ last.requests = 0
    /\ AwaitingRegion(last.user)

\* C5: after /start or /help the session is idle and holds no pending
\* request, also when a region was awaited.
C5_FallbackEndsConversation ==
    last.handler \in {"start", "help"} => Idle(last.user) /\ ~HasPending(last.user)

\* C6: once conversation_timeout seconds have passed since the last update
\* of a user, the session is idle and holds no pending request.
C6_TimeoutEndsConversation ==
    \A user \in Users :
        elapsed[user] >= conversation_timeout => Idle(user) /\ ~HasPending(user)

\* a text that is empty or shorter than MIN_MESSAGE_LENGTH once sanitized,
\* longer than max_message_length, repetitive or mostly punctuation
FailsValidation(message_text) ==
    LET sanitized == sanitize_input(message_text)
        letters == Cardinality(Range(lower(sanitized)))
        marks == Len(SelectSeq(sanitized, IsPunctuation))
    IN  \/ Len(sanitized) < MIN_MESSAGE_LENGTH
        \/ Len(sanitized) > max_message_length
        \/ /\ Len(sanitized) > MIN_UNIQUE_CHARS_FOR_SPAM_CHECK
           /\ letters * 100 < MAX_SPAM_REPETITION_RATIO * Len(sanitized)
        \/ /\ Len(sanitized) > 10
           /\ marks * 100 > 50 * Len(sanitized)

\* C7: a text of an idle user that fails validation is answered with a
\* validation error; no request is sent to the remote model, nothing is
\* classified, no lookup is made, and the session is idle without a pending
\* request.
C7_InvalidMessageRejected ==
    (last.handler = "handle_message" /\ FailsValidation(last.text)) =>
        /\ last.reply.kind = "validation_error"
        /\ last.requests = 0
        /\ last.classified = <<>>
        /\ last.lookups = <<>>
        /\ last.links = <<>>
        /\ Idle(last.user)
        /\ ~HasPending(last.user)

\* a text one character longer than max_message_length was rejected
C7_Witness ==
    /\ last.handler = "handle_message"
    /\ last.text = TooLong
    /\ last.reply = format_validation_error("Message too long", <<>>)
    /\ last.requests = 0

\* C8: a valid text of an idle user whose normalized form matches a help
\* pattern is answered with the help text, one that matches an about pattern
\* and no help pattern with the about text; in both cases no request is sent
\* to the remote model, nothing is classified and the session stays idle.
C8_PatternShortcuts ==
    (last.handler = "handle_message" /\ ~FailsValidation(last.text)) =>
        LET text == sanitize_input(last.text)
            help == _matches_patterns(text, HELP_PATTERNS)
            about == _matches_patterns(text, ABOUT_PATTERNS)
        IN  /\ help => last.reply.kind = "help"
            /\ (~help /\ about) => last.reply.kind = "about"
            /\ (help \/ about) =>
                   /\ last.requests = 0
                   /\ last.classified = <<>>
                   /\ last.lookups = <<>>
                   /\ Idle(last.user)
                   /\ ~HasPending(last.user)
            /\ ~(help \/ about) => last.reply.kind \notin {"help", "about"}

\* "aiuto, chi sei?" matches a help pattern and an about pattern: the help
\* text was sent
C8_Witness ==
    /\ last.handler = "handle_message"
    /\ last.text = HelpAboutText
    /\ _matches_patterns(sanitize_input(HelpAboutText), ABOUT_PATTERNS)
    /\ last.reply.kind = "help"
    /\ last.requests = 0


(***************************************************************************)
(* Properties of catalog lookups.                                          *)
(***************************************************************************)

\* the entries the catalog holds for exactly this intent and this region,
\* in catalog order
EntriesOf(intent, region) ==
    SelectSeq(catalog_service.entries,
              LAMBDA e : e.intent = intent /\ e.region = region)

\* the order of resolution that C9 states, on those entries
FirstMatch(intent, region) ==
    IF truthy(region) /\ EntriesOf(intent, region) # <<>>
        THEN EntriesOf(intent, region)
    ELSE IF EntriesOf(intent, NATIONAL_REGION) # <<>>
        THEN EntriesOf(intent, NATIONAL_REGION)
    ELSE IF truthy(region) THEN EntriesOf(intent, region)
    ELSE EntriesOf(intent, NATIONAL_REGION)

Resolved(intent, region) ==
    IF truthy(region) /\ FirstMatch(intent, region) = <<>>
    THEN FirstMatch(intent, None)
    ELSE FirstMatch(intent, region)

\* C9: a lookup for (intent, region) returns the entries of the exact
\* (intent, region) bucket when a region is given and the bucket exists,
\* otherwise those of (intent, Nazionale), otherwise the entries of the
\* intent with that region, and retries without the region when a region
\* was given and nothing was found; a region without a bucket gets the
\* national bucket, a region with a bucket never gets a national entry.
C9_LookupOrder ==
    last.lookups # <<>> =>
        LET intent == lower(last.lookups[1].intent)
            region == last.lookups[1].region
            limit == catalog_service.max_links_per_response
        IN  /\ last.links = prefix(Resolved(intent, region), limit)
            /\ ( /\ truthy(region)
                 /\ EntriesOf(intent, region) = <<>>
                 /\ EntriesOf(intent, NATIONAL_REGION) # <<>> )
               => last.links = prefix(EntriesOf(intent, NATIONAL_REGION), limit)
            /\ ( /\ truthy(region)
                 /\ region # NATIONAL_REGION
                 /\ EntriesOf(intent, region) # <<>> )
               => \A i \in DOMAIN last.links : last.links[i].region # NATIONAL_REGION

\* the bucket of the index that a lookup resolves to, read off the catalog
\* in its order; empty when neither the bucket of the region nor the
\* national one exists
MatchingBucket(intent, region) ==
    LET index == catalog_service.index.intent_region_index
        own == _make_combined_key(intent, region)
        national == _make_combined_key(intent, NATIONAL_REGION)
        InOrder(key) ==
            SelectSeq(catalog_service.entries,
                      LAMBDA e : _make_combined_key(e.intent, e.region) = key)
    IN  IF intent = <<>> THEN <<>>
        ELSE IF truthy(region) /\ own \in DOMAIN index THEN InOrder(own)
        ELSE IF national \in DOMAIN index THEN InOrder(national)
        ELSE <<>>

\* C10: the list that get_links returns has at most max_links_per_response
\* entries and is the prefix, in catalog order, of the matching bucket.
C10_LinksArePrefix ==
    last.lookups # <<>> =>
        LET bucket == MatchingBucket(lower(last.lookups[1].intent),
                                     last.lookups[1].region)
        IN  /\ Len(last.links) <= catalog_service.max_links_per_response
            /\ Len(last.links) <= Len(bucket)
            /\ last.links = SubSeq(bucket, 1, Len(last.links))
            /\ Len(last.links) < Len(bucket)
               => Len(last.links) = catalog_service.max_links_per_response

\* a lookup whose bucket holds more entries than the limit allows
C10_Witness ==
    /\ last.handler = "get_links"
    /\ Len(last.links) = max_links_per_response
    /\ Len(MatchingBucket(lower(last.lookups[1].intent), last.lookups[1].region))
           > max_links_per_response


(***************************************************************************)
(* Properties of loading and reloading the catalog.                        *)
(***************************************************************************)
HasScheme(url) == startswith(url, Http) \/ startswith(url, Https)

\* a record with the four required fields, each a non-empty text, and a url
\* with a scheme
WellFormed(record) ==
    /\ record.kind = "dict"
    /\ RequiredFields \subseteq DOMAIN record.fields
    /\ \A f \in RequiredFields : IsStr(record.fields[f]) /\ record.fields[f] # <<>>
    /\ HasScheme(record.fields.url)
    /\ "description" \in DOMAIN record.fields => IsStr(record.fields.description)

\* C11: every entry the catalog holds after a load has a url with an http or
\* https scheme and a non-empty intent, region and label; the entries are
\* the well-formed records of the file, in their order, the other records
\* being skipped one by one.
C11_LoadedEntriesWellFormed ==
    /\ \A i \in DOMAIN catalog_service.entries :
           /\ HasScheme(catalog_service.entries[i].url)
           /\ catalog_service.entries[i].intent # <<>>
           /\ catalog_service.entries[i].region # <<>>
           /\ catalog_service.entries[i].label # <<>>
    /\ data_file.kind = "list" =>
           catalog_service.entries
               = MapSeq(SelectSeq(data_file.items, WellFormed),
                        LAMBDA record : from_dict(record.fields).value)

\* C12: when the data file is missing, is no JSON or holds no list, the
\* service is built with no entries and an empty index, every get_links
\* returns the empty list, and get_regions and get_intents are empty.
C12_UnreadableFileLoadsEmpty ==
    data_file.kind # "list" =>
        /\ catalog_service.entries = <<>>
        /\ catalog_service.index = _build_indexes(<<>>)
        /\ DOMAIN catalog_service.index.intent_region_index = {}
        /\ get_regions(catalog_service) = <<>>
        /\ get_intents(catalog_service) = <<>>
        /\ last.handler = "get_links" => last.links = <<>>

\* a lookup in the service built on a file that holds a JSON object
C12_Witness ==
    /\ data_file = ObjectFile
    /\ last.handler = "get_links"
    /\ last.lookups[1] = [intent |-> CUP, region |-> Lazio]
    /\ last.links = <<>>

\* C13: after reload_catalog with a well-formed list in the data file, the
\* call has reported success, the entries and the index are those of the
\* file as it is now, and the regions of the validator are those of the
\* new catalog.
C13_ReloadReplaces ==
    ( /\ last.handler = "reload_catalog"
      /\ data_file.kind = "list"
      /\ \A i \in DOMAIN data_file.items : WellFormed(data_file.items[i]) )
    => /\ last.reply.kind = "reloaded"
       /\ catalog_service.entries = _load_catalog(data_file)
       /\ catalog_service.index = _build_indexes(_load_catalog(data_file))
       /\ validation_service.regions = Range(get_regions(catalog_service))


(***************************************************************************)
(* Properties of the classification service.                               *)
(***************************************************************************)
\* the form of a text that the cache is said to be keyed by
normalized_form(text) == prefix(strip(lower(text)), 100)

\* the JSON text that the call handled last got from _cached_classify
Cached == classification_cache[Len(classification_cache)].value

\* C14: a call of classify_async for a text whose normalized form is that
\* of a text still in the cache sends no request to the remote model and
\* returns the classification of the cached text.
C14_SameNormalizedTextOneRequest ==
    [][ \A text \in ClassifyTexts :
          ( /\ last'.handler = "classify_async"
            /\ last'.text = text
            /\ \E i \in DOMAIN classification_cache :
                   classification_cache[i].key[1] = normalized_form(text) )
          => /\ last'.requests = 0
             /\ \E i \in DOMAIN classification_cache :
                    /\ classification_cache[i].key[1] = normalized_form(text)
                    /\ last'.classified
                           = <<ClassificationResult(classification_cache[i].value).value>>
      ]_vars

\* C15: a call that misses the cache sends at most 3 requests: one more
\* than the requests that failed, a wait of 1 s after the first failure and
\* of 2 s after the second; after a third failure nothing more is sent or
\* waited for and the call returns the default classification.
C15_AtMostThreeRequests ==
    (last.handler = "classify_async" /\ last.outcome.status # "none") =>
        /\ last.requests <= 3
        /\ last.requests = IF last.outcome.failures < 3
                           THEN last.outcome.failures + 1 ELSE 3
        /\ last.waits = CASE last.outcome.failures = 0 -> <<>>
                           [] last.outcome.failures = 1 -> <<1>>
                           [] OTHER -> <<1, 2>>
        /\ last.outcome.failures >= 3 => last.classified = <<DefaultClassification>>

\* four requests in a row failed: three were sent, with waits of 1 s and 2 s
C15_Witness ==
    /\ last.handler = "classify_async"
    /\ last.outcome.status # "none"
    /\ last.outcome.failures = MaxFailures
    /\ last.requests = 3
    /\ last.waits = <<1, 2>>
    /\ last.classified = <<DefaultClassification>>

\* a response that cannot be decoded: an HTTP error status, no content in
\* the envelope, no opening or no closing brace, the closing brace ahead of
\* the opening one, or something else than members between them
Refused(response) ==
    \/ response.status # "ok"
    \/ find(response.content, "{") = 0
    \/ rfind(response.content, "}") = 0
    \/ rfind(response.content, "}") < find(response.content, "{")
    \/ \E i \in (find(response.content, "{") + 1)..(rfind(response.content, "}") - 1) :
           response.content[i].key = "char" /\ response.content[i].value # " "

\* C16: when the remote model answers with a response that cannot be
\* decoded, no request follows the answer and no wait is made for it: one
\* request and no wait when the first request is answered; the call
\* returns the default classification.
C16_RefusedReplyNotRetried ==
    ( /\ last.handler = "classify_async"
      /\ last.outcome.status # "none"
      /\ last.outcome.failures < max_attempts
      /\ Refused(last.outcome.response) )
    => /\ last.requests = last.outcome.failures + 1
       /\ Len(last.waits) = last.outcome.failures
       /\ last.outcome.failures = 0 => last.requests = 1 /\ last.waits = <<>>
       /\ last.classified = <<DefaultClassification>>

\* two objects in one reply: the span from the first "{" to the last "}" is
\* no JSON; one request, no wait, the default classification
C16_Witness ==
    /\ last.handler = "classify_async"
    /\ last.outcome.status = "no_json"
    /\ last.outcome.failures = 0
    /\ find(last.outcome.response.content, "{") = 1
    /\ Len(SelectSeq(last.outcome.response.content, LAMBDA t : IsChar(t, "{"))) = 2
    /\ last.requests = 1
    /\ last.waits = <<>>
    /\ last.classified = <<DefaultClassification>>

ClassificationFields == {"intent", "region", "confidence", "needs_region"}

\* the members between the first "{" and the last "}" of a content
MembersOf(content) ==
    SelectSeq(SubSeq(content, find(content, "{"), rfind(content, "}")),
              LAMBDA t : t.key # "char")

\* C17: for a response that can be decoded, the JSON text that
\* _classify_internal returns holds the members found between the first
\* "{" and the last "}" of the content with their values, whatever stands
\* before and after, and the default for each of the four fields that is
\* not among them.
C17_DecodedFromBraceSpan ==
    ( /\ last.handler = "classify_async"
      /\ last.outcome.status # "none"
      /\ last.outcome.failures < max_attempts
      /\ ~Refused(last.outcome.response) )
    => LET members == MembersOf(last.outcome.response.content)
           names == { members[i].key : i \in DOMAIN members }
       IN  /\ DOMAIN Cached = names \cup ClassificationFields
           /\ \A i \in DOMAIN members :
                  Cached[members[i].key] = json_value(members[i].value)
           /\ \A name \in ClassificationFields \ names :
                  Cached[name] = DefaultClassification[name]

\* "Sure: {intent: bollo_auto, needs_region: true}. ": the object is taken
\* out of the commentary, region and confidence get their defaults
C17_Witness ==
    /\ last.handler = "classify_async"
    /\ last.outcome.status = "ok"
    /\ find(last.outcome.response.content, "{") > 1
    /\ rfind(last.outcome.response.content, "}") < Len(last.outcome.response.content)
    /\ Cached = [intent |-> BOLLO_AUTO, region |-> None, confidence |-> 0,
                 needs_region |-> TRUE]
    /\ last.classified[1].intent = BOLLO_AUTO

\* C18: the confidence of the classification returned is within [0, 1]; a
\* confidence above 1 in the reply is returned as 1, one below 0 as 0,
\* with the intent and the region of the reply.
C18_ConfidenceClamped ==
    (last.handler = "classify_async" /\ strip(last.text) # <<>>) =>
        /\ last.classified[1].confidence \in 0..100
        /\ Cached.confidence > 100 =>
               /\ last.classified[1].confidence = 100
               /\ last.classified[1].intent = lower(Cached.intent)
               /\ last.classified[1].region = Cached.region
        /\ Cached.confidence < 0 =>
               /\ last.classified[1].confidence = 0
               /\ last.classified[1].intent = lower(Cached.intent)
               /\ last.classified[1].region = Cached.region


(***************************************************************************)
(* Properties of the region resolver.                                      *)
(***************************************************************************)
\* C19: for every region list given to the resolver, at construction or
\* through update_regions, and every name r of the list, validate_region(r)
\* is valid and its normalized_value is r.
C19_CanonicalNameResolvesToItself ==
    (last.handler = "validate_region" /\ last.text \in validation_service.regions) =>
        /\ last.validation.is_valid
        /\ last.validation.normalized_value = last.text

\* the text as validate_region normalizes it
NormalizedInput(region_text) == _normalize_text(sanitize_input(strip(region_text)))

\* no exact, alias or literal match of the text in the service
Unmatched(v, region_text) ==
    /\ region_text # <<>>
    /\ NormalizedInput(region_text) \notin DOMAIN v.normalized_regions
    /\ NormalizedInput(region_text) \notin DOMAIN v.region_aliases
    /\ \A r \in v.regions : lower(r) # lower(strip(region_text))

\* the similarity of a region name to the text
Score(r, region_text) == ratio(_normalize_text(r), NormalizedInput(region_text))

\* C20: whatever the two thresholds, a text with no exact, alias or literal
\* match is valid with a closest region name when the score of some region
\* name is at or above the acceptance threshold; otherwise it is invalid
\* with at most 3 suggestions, distinct names of the region list.
C20_AcceptedAtThreshold ==
    (last.handler = "validate_region" /\ Unmatched(validation_service, last.text)) =>
        IF \E r \in validation_service.regions :
               AtLeast(Score(r, last.text), validation_service.fuzzy_match_threshold)
        THEN /\ last.validation.is_valid
             /\ last.validation.normalized_value \in validation_service.regions
             /\ \A r \in validation_service.regions :
                    Score(last.validation.normalized_value, last.text)[1]
                            * Score(r, last.text)[2]
                        >= Score(r, last.text)[1]
                            * Score(last.validation.normalized_value, last.text)[2]
        ELSE /\ ~last.validation.is_valid
             /\ Len(last.validation.suggestions) <= MAX_SUGGESTIONS
             /\ Range(last.validation.suggestions) \subseteq validation_service.regions
             /\ \A i, j \in DOMAIN last.validation.suggestions :
                    i # j => last.validation.suggestions[i] # last.validation.suggestions[j]


(***************************************************************************)
(* Properties of the catalog index.                                        *)
(***************************************************************************)
\* the places <<key, position>> of an index at which the entry stands
Places(index, entry) ==
    { place \in UNION { {k} \X DOMAIN index[k] : k \in DOMAIN index } :
        index[place[1]][place[2]] = entry }

\* the entries of every bucket stand in the order of the list
KeepsOrder(index, entries) ==
    \A k \in DOMAIN index : \A p, q \in DOMAIN index[k] :
        p < q => \E i, j \in DOMAIN entries :
                    i < j /\ entries[i] = index[k][p] /\ entries[j] = index[k][q]

\* entries with an intent and a region, no two alike
ValidEntries(entries) ==
    /\ \A i \in DOMAIN entries : entries[i].intent # <<>> /\ entries[i].region # <<>>
    /\ \A i, j \in DOMAIN entries : i # j => entries[i] # entries[j]

\* C21: in the index built from a list of valid entries every entry stands
\* once in one (intent, region) bucket, once in the bucket of its intent
\* and once in the bucket of its region, every bucket keeps the order of
\* the list, and get_regions holds the regions of the entries except
\* "Nazionale".
C21_EveryEntryIndexedOnce ==
    ValidEntries(catalog_service.index.entries) =>
        /\ \A i \in DOMAIN catalog_service.index.entries :
              LET entry == catalog_service.index.entries[i]
              IN  /\ Cardinality(Places(catalog_service.index.intent_region_index, entry)) = 1
                  /\ Places(catalog_service.index.intent_index, entry) # {}
                  /\ Places(catalog_service.index.intent_index, entry)
                        \subseteq {entry.intent} \X DOMAIN catalog_service.index.entries
                  /\ Cardinality(Places(catalog_service.index.intent_index, entry)) = 1
                  /\ Places(catalog_service.index.region_index, entry)
                        \subseteq {entry.region} \X DOMAIN catalog_service.index.entries
                  /\ Cardinality(Places(catalog_service.index.region_index, entry)) = 1
        /\ KeepsOrder(catalog_service.index.intent_region_index, catalog_service.index.entries)
        /\ KeepsOrder(catalog_service.index.intent_index, catalog_service.index.entries)
        /\ KeepsOrder(catalog_service.index.region_index, catalog_service.index.entries)
        /\ Range(get_regions(catalog_service))
              = { catalog_service.index.entries[i].region :
                    i \in DOMAIN catalog_service.index.entries } \ {NATIONAL_REGION}

\* an index with national and regional entries and a bucket of several
\* entries, in use by a lookup
C21_Witness ==
    /\ last.handler = "get_links"
    /\ ValidEntries(catalog_service.index.entries)
    /\ NATIONAL_REGION \in DOMAIN catalog_service.index.region_index
    /\ Len(catalog_service.index.region_index[NATIONAL_REGION]) > 1
    /\ Len(get_regions(catalog_service)) > 1


\* the cache holds the default classification under the key of the text
CachedDefault(cache, text) ==
    \E i \in DOMAIN cache :
        cache[i].key = cache_key(text) /\ cache[i].value = DefaultClassification

\* C27: the default classification of a call whose requests all failed or
\* whose reply could not be decoded is put in the cache; as long as it is
\* there, a call for the same text sends no request and returns the
\* default classification.
C27_FailureIsCached ==
    [][ (last'.handler = "classify_async" /\ strip(last'.text) # <<>>) =>
          /\ ( /\ last'.outcome.status # "none"
               /\ \/ last'.outcome.failures >= max_attempts
                  \/ Refused(last'.outcome.response) )
             => CachedDefault(classification_cache', last'.text)
          /\ CachedDefault(classification_cache, last'.text)
             => /\ last'.requests = 0
                /\ last'.waits = <<>>
                /\ last'.classified = <<DefaultClassification>>
                /\ CachedDefault(classification_cache', last'.text)
      ]_vars

\* a call answered from the cache with the default classification
C27_Witness ==
    /\ last.handler = "classify_async"
    /\ strip(last.text) # <<>>
    /\ last.outcome.status = "none"
    /\ last.requests = 0
    /\ last.classified = <<DefaultClassification>>
    /\ CachedDefault(classification_cache, last.text)


\* C28: after construction and after every reload_catalog the entries of
\* the service are the entries its index was built from: when the entry
\* list is empty (is_empty, entry_count = 0) no lookup returns a link.
C28_EntriesAreIndexed ==
    /\ catalog_service.entries = catalog_service.index.entries
    /\ (Len(catalog_service.entries) = 0 /\ last.handler = "get_links") => last.links = <<>>

\* C29: a valid result of validate_region names a region of the current
\* region set of the service, also after update_regions replaced the set.
C29_ValidRegionIsCurrent ==
    (last.handler = "validate_region" /\ last.validation.is_valid) =>
        last.validation.normalized_value \in validation_service.regions

\* "roma" resolved through its alias to a region of the set, and "lazo"
\* through its similarity
C29_Witness ==
    /\ last.handler = "validate_region"
    /\ last.text \in {RomaText, LazoText}
    /\ last.validation.is_valid
    /\ last.validation.normalized_value = Lazio
    /\ Lazio \in validation_service.regions
    /\ Cardinality(validation_service.regions) = 2

(***************************************************************************)
(* Properties of the running Application: sessions, failures, /stats.      *)
(***************************************************************************)
InProcess == application.processing # <<>>

\* C23: within one session, the handling of the next message starts only
\* after the transition caused by the message before has been applied: while
\* a message of a session waits for the remote model, a message of the same
\* session that has arrived stays in the queue, and the step that ends the
\* wait applies the whole transition (the conversation state and the pending
\* request together), so that no update is ever taken with a handler still
\* waiting.
C23_NextMessageWaitsForTransition ==
    [][ /\ InProcess =>
            /\ application'.update_queue \in
                   { application.update_queue }
                   \cup { Append(application.update_queue, update) : update \in Updates }
            /\ \/ application'.processing = application.processing
                   /\ UNCHANGED <<conversations, user_data>>
               \/ application'.processing = <<>>
        /\ ( /\ ~InProcess
             /\ application'.processing = <<>>
             /\ application'.update_queue # application.update_queue
             /\ Len(application'.update_queue) <= Len(application.update_queue) )
           => application'.update_queue = Tail(application.update_queue)
      ]_vars

C23_Witness ==
    /\ InProcess
    /\ application.update_queue # <<>>
    /\ Head(application.update_queue).user = application.processing[1].user
    /\ Head(application.update_queue).kind = "text"

\* C25: while the remote call of one session's message is in flight, a
\* message of another session that is queued can be taken up.
C25_OtherSessionNotBlocked ==
    ( /\ InProcess
      /\ application.update_queue # <<>>
      /\ Head(application.update_queue).user # application.processing[1].user )
    => _update_fetcher(application)

\* C26: a session that is idle has no pending intent and no pending request
\* in its user data, whatever way the last handler ended.
C26_PendingOnlyWhileAwaiting ==
    \A user \in Sessions : Idle(user) => ~HasPending(user)

\* C30: /stats of a user in the admin set is answered with the statistics,
\* /stats of any other user with the admin-only refusal.
C30_StatsAdminOnly ==
    last.handler = "stats" =>
        /\ ~last.escaped
        /\ last.reply.kind = IF last.user \in Admins THEN "stats" ELSE "admin_only"

ClassifierFailed ==
    /\ last.handler = "handle_message"
    /\ last.requests > 0
    /\ last.outcome.status \notin {"ok", "none"}

Handler ==
    IF InProcess THEN application.processing[1].user
    ELSE IF application.update_queue # <<>> THEN Head(application.update_queue).user
    ELSE "none"

\* C24: no step changes the pending request or the conversation state of a
\* session other than the one whose update it handles.
C24_OtherSessionsUntouched ==
    [][ \A session \in Sessions \ {Handler} :
            /\ user_data'[session] = user_data[session]
            /\ (session \in DOMAIN conversations') = (session \in DOMAIN conversations)
            /\ session \in DOMAIN conversations =>
                   conversations'[session] = conversations[session]
      ]_vars

C24_Witness ==
    /\ last.user = "u2"
    /\ last.handler = "handle_region_selection"
    /\ Idle("u2")
    /\ AwaitingRegion("u1")
    /\ HasPending("u1")

\* whether a session that sends raw_text while the remote model answers
\* `outcome`, with nothing of another session in the cache, is left awaiting
\* a region
AloneAwaits(raw_text, outcome) ==
    With(normalize_region(
             classify_async(<<>>, cache_size_classifications,
                            validate_message_of(raw_text).normalized_value,
                            outcome).classification),
         LAMBDA classification :
             /\ ~is_conversational(classification.intent)
             /\ requires_region(classification.intent)
             /\ ~truthy(classification.region)
             /\ classification.needs_region)

\* C24 as stated: a session is left in the state it would be in had the
\* other session sent nothing.  Here the other session's message has just
\* been classified by the remote model and this session sends the same text.
C24_AsIfAlone ==
    [][ ( /\ last.handler = "handle_message"
          /\ last.requests > 0
          /\ last'.handler = "handle_message"
          /\ last'.user # last.user
          /\ last'.text = last.text
          /\ last'.classified # <<>>
          /\ last'.exception = "none" )
        => (last'.user \in DOMAIN conversations')
               = AloneAwaits(last'.text, last'.outcome)
      ]_vars

====
